---- MODULE Spec2Model ----
(***************************************************************************)
(* strapi-migrate: the import pipeline (runImport and its helpers, latest  *)
(* revision, src/unnamed/part_004) and the export command (runExport,      *)
(* latest revision, src/README.md lines 143-690), run against an abstract  *)
(* Strapi v5 store (Documents Service) and an abstract file system.        *)
(*                                                                         *)
(* The store is the external collaborator of spec section 6: its rows are  *)
(* locale variants of documents, each with a working copy (data) and, when *)
(* published, a live copy.                                                 *)
(***************************************************************************)
EXTENDS Integers, Sequences, FiniteSets, TLC

VARIABLES
  manifest,    \* exportManifest: parsed data.json (types, media, locales, views)
  archive,     \* the input: [tar, files (bytes under uploads/), schema (src/ dirs)]
  opts,        \* options: [clean, skipSchema, skipMedia, dryRun]
  faults,      \* operations the environment rejects: set of [site, at]
  db,          \* destination store: entries, files, locales, views, id counters
  fsys,        \* destination file system: uploads, schema, temp (extraction dir)
  mediaIdMap,  \* module-level Map old media id -> new media id
  pc,          \* position inside runImport / runExport
  ti,          \* index into uids (Object.keys(exportManifest.types))
  ii,          \* index into the current list (items, media, locales)
  local,       \* localEntry of the single type pass: documentId or ""
  ops,         \* mutating store calls issued in this run, in order
  run,         \* number of the current invocation
  exitCode,    \* -1 while running, else the process exit code
  pre,         \* destination store and file system when the invocation started
  xfs,         \* export side: [types (typesToExport), base (export-data/ exists),
               \* dir (export-<ts>/ exists), tar (the archive exists)]
  nz,          \* a call of simplifyPayload on its own: [data, known, stripped, resolved]
  pl,          \* a call of getPopulateFromSchema on its own: [registry, max, stack, ret]
  walk         \* the objects of one exported entry as findMedia and replaceMediaIds
               \* meet them: [data, listed, treated]

vars == <<manifest, archive, opts, faults, db, fsys, mediaIdMap, pc, ti, ii,
          local, ops, run, exitCode, pre, xfs, nz, pl, walk>>

(***************************************************************************)
(* Bounds of the model.                                                    *)
(***************************************************************************)
MaxEntries == 3      \* entries in one manifest
MaxRuns    == 2      \* invocations in a row with the same manifest
MaxFaults  == 1      \* operations the environment rejects in one behaviour

(***************************************************************************)
(* Sequence helpers.                                                       *)
(***************************************************************************)
Range(s) == {s[i] : i \in DOMAIN s}

Reverse(s) == [i \in 1..Len(s) |-> s[Len(s) + 1 - i]]

RECURSIVE Flatten(_)
Flatten(ss) == IF ss = <<>> THEN <<>> ELSE Head(ss) \o Flatten(Tail(ss))

RECURSIVE Dedup(_)
\* first occurrence of every element, in order (Map keyed by id keeps the first)
Dedup(s) ==
  IF s = <<>> THEN <<>>
  ELSE LET r == Dedup(SubSeq(s, 1, Len(s) - 1))
           x == s[Len(s)]
       IN IF \E i \in DOMAIN r : r[i] = x THEN r ELSE Append(r, x)

Min(S) == CHOOSE x \in S : \A y \in S : x <= y

(***************************************************************************)
(* The destination schema registry (strapi.contentTypes): two collection   *)
(* types, one of them without draft & publish, and one single type.        *)
(***************************************************************************)
Uids == {"post", "tag", "home"}

Kind(uid) == IF uid = "home" THEN "singleType" ELSE "collectionType"

DraftAndPublish(uid) == uid # "tag"

DefaultLocale == "en"

(***************************************************************************)
(* Source media objects as they are embedded in exported entries: the      *)
(* source id and the content hash.  Two of them share one hash.  The file  *)
(* name (basename of url) follows the hash.                                *)
(***************************************************************************)
SrcMedia == {1, 2, 3}

HashOf(m) == IF m = 3 THEN "h2" ELSE "h1"

(***************************************************************************)
(* Exported entries the manifests are built from.  rel holds, per relation *)
(* attribute (one per target type), the documentIds referenced; cover is a *)
(* single media field (0: none), gallery a multiple media field.           *)
(***************************************************************************)
Ref(t, d) == [target |-> t, doc |-> d]

Entry(u, d, l, p, t, s, r, c, g) ==
  [uid |-> u, documentId |-> d, locale |-> l, publishedAt |-> p,
   title |-> t, seo |-> s, rel |-> r, cover |-> c, gallery |-> g]

PostUniverse ==
  << Entry("post", "a", "en", TRUE, 1, 1,
           {Ref("post", "b"), Ref("tag", "t"), Ref("home", "h")}, 1, <<>>),
     Entry("post", "a", "fr", FALSE, 2, 0, {}, 2, <<>>),
     Entry("post", "b", "en", FALSE, 3, 2, {Ref("post", "a")}, 0, <<3, 3, 3>>) >>

TagUniverse ==
  << Entry("tag", "t", "en", TRUE, 4, 0, {Ref("post", "a")}, 2, <<>>) >>

HomeUniverse ==
  << Entry("home", "h", "en", TRUE, 5, 1, {Ref("post", "a")}, 3, <<>>),
     Entry("home", "h", "fr", FALSE, 6, 0, {}, 0, <<>>) >>

UniverseOf(uid) ==
  IF uid = "post" THEN PostUniverse
  ELSE IF uid = "tag" THEN TagUniverse ELSE HomeUniverse

AllEntries == Range(PostUniverse) \cup Range(TagUniverse) \cup Range(HomeUniverse)

\* media objects met while walking one entry, in key order
MediaRefs(e) == (IF e.cover = 0 THEN <<>> ELSE <<e.cover>>) \o e.gallery

(***************************************************************************)
(* Manifests.  types keeps the key order of exportManifest.types.          *)
(***************************************************************************)
TypeOrders ==
  {o \in [1..3 -> Uids] : \A i, j \in 1..3 : i # j => o[i] # o[j]}

ItemsOf(S, uid, rev) ==
  LET sel == SelectSeq(UniverseOf(uid), LAMBDA e : e \in S)
  IN IF rev THEN Reverse(sel) ELSE sel

ManifestEntries(m) ==
  UNION {Range(m.types[i].items) : i \in DOMAIN m.types}

MkManifest(S, order, rev, listed, locs, views) ==
  LET types == [i \in 1..3 |-> [uid |-> order[i], items |-> ItemsOf(S, order[i], rev)]]
      refs  == Dedup(Flatten([i \in 1..3 |->
                 Flatten([k \in 1..Len(types[i].items) |-> MediaRefs(types[i].items[k])])]))
  IN [types   |-> types,
      media   |-> SelectSeq(refs, LAMBDA x : x \in listed),
      locales |-> locs,
      views   |-> views]

EntrySets == {S \in SUBSET AllEntries : Cardinality(S) <= MaxEntries}

\* manifests as the export writes them: every media object of an entry is listed
Manifests ==
  {MkManifest(S, o, rev, SrcMedia, <<"en", "fr">>, <<"post">>) :
     S \in EntrySets, o \in TypeOrders, rev \in BOOLEAN}

(***************************************************************************)
(* Faults: the operations the environment rejects in this behaviour.  A    *)
(* fault names the call site and what it is applied to, so that the same   *)
(* operation is rejected every time it is tried (a validation rejection,   *)
(* an unwritable directory, an unreachable store).                         *)
(***************************************************************************)
Fault(site, a, b, c) == [site |-> site, at |-> <<a, b, c>>]

Rejects(site, a, b, c) == Fault(site, a, b, c) \in faults

(***************************************************************************)
(* Values of a media field after replaceMediaIds: a destination id, null,  *)
(* or the source media object itself (without its id).                     *)
(***************************************************************************)
MId(n) == [k |-> "id", v |-> n]

MNull == [k |-> "null", v |-> 0]

MRaw(m) == [k |-> "raw", v |-> m]

EmptyData == [title |-> 0, seo |-> 0, rel |-> {}, cover |-> MNull, gallery |-> <<>>]

\* the store merges the attributes present in the payload into the stored copy
Apply(data, w) ==
  [title   |-> w.title,
   seo     |-> IF w.hasSeo THEN w.seo ELSE data.seo,
   rel     |-> IF w.hasRel THEN w.rel ELSE data.rel,
   cover   |-> IF w.hasCover THEN w.cover ELSE data.cover,
   gallery |-> w.gallery]

(***************************************************************************)
(* The destination store.  Calls of the Documents Service that carry no    *)
(* locale address the default locale (the export passes locale: '*' to     *)
(* reach the others); db.query(...) reads rows whatever their locale.      *)
(***************************************************************************)
GenDocs == <<"g1", "g2", "g3", "g4">>

\* a type without draft & publish has the published state only
StoredStatus(uid, status) == IF DraftAndPublish(uid) THEN status ELSE "published"

RowsOf(d, uid, doc, loc) ==
  {r \in d.entries : r.uid = uid /\ r.documentId = doc /\ r.locale = loc}

\* strapi.documents(uid).findFirst({ filters: { documentId }, locale, status: 'draft' })
FindFirst(d, uid, doc, loc) == RowsOf(d, uid, doc, loc) # {}

\* strapi.documents(uid).findFirst({ status: 'draft' }) || findFirst({ status: 'published' })
FindFirstLocal(d, uid) ==
  LET rs == {r \in d.entries : r.uid = uid /\ r.locale = DefaultLocale}
  IN IF rs = {} THEN ""
     ELSE (CHOOSE r \in rs : \A q \in rs : r.id <= q.id).documentId

\* strapi.db.query(target).findOne({ select: ['id'], where: { documentId } })
FindOneByDocumentId(d, target, doc) ==
  LET rs == {r \in d.entries : r.uid = target /\ r.documentId = doc}
  IN IF rs = {} THEN 0 ELSE Min({r.id : r \in rs})

\* a lookup that never finds the asset
FindFileByHashNever(d, h) == 0

\* a lookup that answers with the first asset, whatever its hash
FindFileAny(d, h) == IF d.files = {} THEN 0 ELSE Min({f.id : f \in d.files})

\* strapi.db.query('plugin::upload.file').findOne({ where: { hash } })
FindFileByHash(d, h) ==
  LET fs == {f \in d.files : f.hash = h}
  IN IF fs = {} THEN 0 ELSE Min({f.id : f \in fs})

\* strapi.documents(uid).create({ data, locale, status }); doc = "" when the payload
\* carries no documentId and the store assigns one
DocCreate(d, uid, doc, loc, w, status) ==
  LET newDoc == IF doc = "" THEN GenDocs[d.nextDoc] ELSE doc
      data   == Apply(EmptyData, w)
      pub    == StoredStatus(uid, status) = "published"
      row    == [id |-> d.nextRow, uid |-> uid, documentId |-> newDoc, locale |-> loc,
                 data |-> data, draft |-> TRUE, published |-> pub,
                 live |-> IF pub THEN data ELSE EmptyData]
  IN [d EXCEPT !.entries = @ \cup {row},
               !.nextRow = @ + 1,
               !.nextDoc = IF doc = "" THEN @ + 1 ELSE @]

DocCreatedId(d, doc) == IF doc = "" THEN GenDocs[d.nextDoc] ELSE doc

UpdatedRow(r, w, status) ==
  LET data == Apply(r.data, w)
      pub  == StoredStatus(r.uid, status) = "published"
  IN [r EXCEPT !.data = data,
               !.published = (@ \/ pub),
               !.live = IF pub THEN data ELSE @]

\* strapi.documents(uid).update({ documentId, locale, data, status }): updates the
\* locale variant, creates it when the document exists in another locale only,
\* and does nothing (returns null) when the document does not exist
DocUpdate(d, uid, doc, loc, w, status) ==
  IF RowsOf(d, uid, doc, loc) # {}
  THEN [d EXCEPT !.entries =
          {IF r \in RowsOf(d, uid, doc, loc) THEN UpdatedRow(r, w, status) ELSE r : r \in @}]
  ELSE IF \E r \in d.entries : r.uid = uid /\ r.documentId = doc
  THEN DocCreate(d, uid, doc, loc, w, status)
  ELSE d

\* strapi.documents(uid).publish({ documentId, locale })
DocPublish(d, uid, doc, loc) ==
  [d EXCEPT !.entries =
     {IF r \in RowsOf(d, uid, doc, loc)
      THEN [r EXCEPT !.published = TRUE, !.live = r.data] ELSE r : r \in @}]

\* strapi.documents(uid).delete({ documentId })
DocDelete(d, uid, doc) ==
  [d EXCEPT !.entries = @ \ RowsOf(d, uid, doc, DefaultLocale)]

\* strapi.entityService.create('plugin::upload.file', { data: filePayload })
FileCreate(d, h) ==
  [d EXCEPT !.files = @ \cup {[id |-> d.nextFile, hash |-> h]}, !.nextFile = @ + 1]

\* uploadService.remove(existing): the record and its bytes
FileRemove(d, id) == [d EXCEPT !.files = {f \in @ : f.id # id}]

(***************************************************************************)
(* The log of mutating store calls.                                        *)
(***************************************************************************)
Op(op, uid, doc, loc, ok) ==
  [op |-> op, uid |-> uid, doc |-> doc, loc |-> loc, ok |-> ok]

(***************************************************************************)
(* Media Resolver.  st threads what a call may change: the store, the id   *)
(* map, public/uploads, the log, and whether an exception escaped.         *)
(***************************************************************************)
Put(map, k, v) == [x \in DOMAIN map \cup {k} |-> IF x = k THEN v ELSE map[x]]

St(d, map, up, o) == [db |-> d, map |-> map, up |-> up, ops |-> o, thrown |-> FALSE]

\* steps 3 of replaceMediaIds (JIT creation) and the tail of importMedia: copy the
\* bytes when the archive has them, then create the record
CopyAndCreate(st, m, onMissing, onRejected) ==
  LET h == HashOf(m) IN
  IF h \notin archive.files THEN [st |-> st, val |-> onMissing]
  ELSE IF h \notin st.up /\ Rejects("copy", h, "", "")
  THEN [st |-> [st EXCEPT !.thrown = TRUE], val |-> MNull]
  ELSE LET st1 == [st EXCEPT !.up = @ \cup {h}] IN
       IF Rejects("createFile", h, "", "")
       THEN [st  |-> [st1 EXCEPT !.ops = Append(@, Op("createFile", "", h, "", FALSE))],
             val |-> onRejected]
       ELSE [st  |-> [st1 EXCEPT !.db  = FileCreate(@, h),
                                 !.map = Put(@, m, st.db.nextFile),
                                 !.ops = Append(@, Op("createFile", "", h, "", TRUE))],
             val |-> MId(st.db.nextFile)]

\* replaceMediaIds on one media object; seen is the store and map state its map
\* check and hash lookup observe
ResolveSeen(st, seen, m) ==
  IF m \in DOMAIN seen.map THEN [st |-> st, val |-> MId(seen.map[m])]
  ELSE LET ex == FindFileByHash(seen.db, HashOf(m)) IN
       IF ex # 0 THEN [st |-> [st EXCEPT !.map = Put(@, m, ex)], val |-> MId(ex)]
       ELSE CopyAndCreate(st, m, MNull, MRaw(m))

replaceMediaIds(st, m) == ResolveSeen(st, st, m)

RECURSIVE ResolveArray(_, _, _, _)
\* replaceMediaIds on an array: Promise.all starts every element before any of them
\* completes.  overlap: the lookups of all elements precede the first creation.
ResolveArray(st, seen, ms, overlap) ==
  IF ms = <<>> \/ st.thrown THEN [st |-> st, vals |-> <<>>]
  ELSE LET r    == ResolveSeen(st, IF overlap THEN seen ELSE st, Head(ms))
           rest == ResolveArray(r.st, seen, Tail(ms), overlap)
       IN [st |-> rest.st, vals |-> <<r.val>> \o rest.vals]

\* replaceMediaIds on the payload of an entry: its keys one after the other
MediaCleaned(st, e, overlap) ==
  LET c == IF e.cover = 0 THEN [st |-> st, val |-> MNull] ELSE replaceMediaIds(st, e.cover)
      g == ResolveArray(c.st, c.st, e.gallery, overlap)
  IN [st |-> g.st, cover |-> c.val, gallery |-> g.vals]

(***************************************************************************)
(* Payload Normalizer.                                                     *)
(***************************************************************************)
\* the relation branch of simplifyPayload with lookupId: unresolved references drop
ResolvedRelations(d, refs) ==
  {[target |-> r.target, id |-> FindOneByDocumentId(d, r.target, r.doc)] :
     r \in {x \in refs : FindOneByDocumentId(d, x.target, x.doc) # 0}}

simplifyPayload(d, e, mc, stripRelations) ==
  [title   |-> e.title,
   hasSeo  |-> e.seo # 0,
   seo     |-> e.seo,
   hasRel  |-> ~stripRelations,
   rel     |-> IF stripRelations THEN {} ELSE ResolvedRelations(d, e.rel),
   \* lines 364-365: a media attribute keeps whatever replaceMediaIds left
   hasCover |-> TRUE,
   cover   |-> mc.cover,
   gallery |-> mc.gallery]

(***************************************************************************)
(* simplifyPayload on nested payloads.  A payload is the object the import *)
(* hands to simplifyPayload, that is the manifest item after               *)
(* replaceMediaIds, which has removed every id key.  The content type and  *)
(* the component "frag" declare the same attributes:                       *)
(*   text  scalar                link  relation to post (single-valued)    *)
(*   links relation to tag (multiple)      child component frag            *)
(*   list  component frag, repeatable      zone  dynamiczone               *)
(* extra is a key the schema does not declare, comp is __component.        *)
(***************************************************************************)
Absent == [t |-> "absent"]

Null == [t |-> "null"]

Scalar(v) == [t |-> "scalar", v |-> v]

\* an embedded copy of the referenced entry; documentId "" when it has none
RefObj(doc) == [t |-> "ref", documentId |-> doc]

\* a bare identifier: a number or a string
Num(n) == [t |-> "num", v |-> n]

Str(x) == [t |-> "str", v |-> x]

Arr(items) == [t |-> "arr", items |-> items]

Obj(comp, link, links, child, list, zone, extra) ==
  [t |-> "obj", comp |-> comp, text |-> Scalar(1), link |-> link, links |-> links,
   child |-> child, list |-> list, zone |-> zone, extra |-> extra]

RelationTarget(key) == IF key = "link" THEN "post" ELSE "tag"

\* lookupId, lines 305-326: null is modelled as Absent
lookupId(d, target, v) ==
  IF v.t \in {"absent", "null"} THEN Absent
  ELSE IF v.t = "num" THEN (IF v.v = 0 THEN Absent ELSE v)
  ELSE IF v.t = "ref" /\ v.documentId # ""
  THEN LET id == FindOneByDocumentId(d, target, v.documentId)
       IN IF id = 0 THEN Absent ELSE Num(id)
  ELSE Absent

\* the relation branch in Pass 2, lines 328-340
ResolvedValue(d, target, v) ==
  IF v.t = "arr"
  THEN Arr(SelectSeq([i \in DOMAIN v.items |-> lookupId(d, target, v.items[i])],
                     LAMBDA x : x # Absent))
  ELSE IF v.t \in {"ref", "num"} THEN lookupId(d, target, v)
  ELSE Absent

RECURSIVE SimplifyNode(_, _, _, _)
\* simplifyPayload, lines 250-373; known is the set of component uids in
\* strapi.components.  An element of an array or of a dynamic zone whose
\* __component is not registered is returned as it is.
SimplifyNode(d, data, known, stripRelations) ==
  IF data.t = "arr"
  THEN Arr([i \in DOMAIN data.items |->
              LET item == data.items[i] IN
              IF item.t = "obj" /\ item.comp # "" /\ item.comp \notin known
              THEN item
              ELSE SimplifyNode(d, item, known, stripRelations)])
  ELSE IF data.t # "obj" THEN data
  ELSE [t     |-> "obj",
        comp  |-> data.comp,
        text  |-> data.text,
        link  |-> IF stripRelations THEN Absent
                  ELSE ResolvedValue(d, RelationTarget("link"), data.link),
        links |-> IF stripRelations THEN Absent
                  ELSE ResolvedValue(d, RelationTarget("links"), data.links),
        child |-> IF "frag" \in known /\ data.child.t = "obj"
                  THEN SimplifyNode(d, data.child, known, stripRelations) ELSE Absent,
        list  |-> IF "frag" \in known /\ data.list.t = "arr"
                  THEN SimplifyNode(d, data.list, known, stripRelations) ELSE Absent,
        zone  |-> IF data.zone.t = "arr"
                  THEN Arr([i \in DOMAIN data.zone.items |->
                              LET item == data.zone.items[i] IN
                              IF item.comp \in known
                              THEN SimplifyNode(d, item, known, stripRelations)
                              ELSE item])
                  ELSE Absent,
        extra |-> IF data.extra.t = "scalar" THEN data.extra ELSE Absent]

(***************************************************************************)
(* Destination states before the first invocation.                         *)
(***************************************************************************)
SeedRow(id, uid, doc, loc, title, pub) ==
  LET data == [EmptyData EXCEPT !.title = title]
  IN [id |-> id, uid |-> uid, documentId |-> doc, locale |-> loc, data |-> data,
      draft |-> TRUE, published |-> pub, live |-> IF pub THEN data ELSE EmptyData]

Dest(rows, files, locs) ==
  [entries |-> rows, files |-> files, locales |-> locs,
   views |-> [u \in Uids |-> "none"], nextRow |-> 10, nextFile |-> 10, nextDoc |-> 1]

DestEmpty == Dest({}, {}, {"en"})

\* entries and an asset the manifest does not name
DestForeign ==
  Dest({SeedRow(1, "post", "z", "en", 7, TRUE), SeedRow(2, "tag", "u", "en", 8, TRUE)},
       {[id |-> 1, hash |-> "h9"]}, {"en", "fr"})

\* an entry and an asset the manifest names, next to foreign ones
DestOverlap ==
  Dest({SeedRow(1, "post", "a", "en", 9, TRUE), SeedRow(2, "post", "z", "en", 7, FALSE),
        SeedRow(3, "post", "z", "fr", 7, FALSE)},
       {[id |-> 1, hash |-> "h1"], [id |-> 2, hash |-> "h9"]}, {"en", "fr"})

\* the single type already has its local document
DestSingle ==
  Dest({SeedRow(1, "home", "hd", "en", 9, FALSE), SeedRow(2, "tag", "t", "en", 8, TRUE)},
       {}, {"en"})

Destinations == {DestEmpty, DestForeign, DestOverlap, DestSingle}

\* a directory under src/api or src/components: its name and where its files
\* come from
SrcDir(name, origin) == [name |-> name, origin |-> origin]

\* public/uploads holds the bytes of the destination's assets; src/ holds one api
\* of the project's own and the api of every content type that has entries
FsOf(d, temp) ==
  [uploads |-> {f.hash : f \in d.files},
   schema  |-> {SrcDir("local", "project")} \cup {SrcDir(r.uid, "project") : r \in d.entries},
   temp    |-> temp]

(***************************************************************************)
(* Inputs.                                                                 *)
(***************************************************************************)
Options == [clean : BOOLEAN, skipSchema : BOOLEAN, skipMedia : BOOLEAN, dryRun : BOOLEAN]

\* an archive as the export writes it: data.json, the bytes of every listed media
\* object, and the api directories of the exported types
ArchiveOf(m, tar) ==
  [tar |-> tar, exists |-> TRUE, extracts |-> TRUE, hasData |-> TRUE, parses |-> TRUE,
   files |-> {HashOf(x) : x \in Range(m.media)},
   schema |-> {m.types[i].uid : i \in DOMAIN m.types}]

NoMap == [x \in {} |-> 0]

\* the export side when the command is import: nothing requested, nothing written
NoExport == [types |-> <<>>, base |-> FALSE, dir |-> FALSE, tar |-> FALSE]

\* no payload handed to simplifyPayload on its own
NoPayload == <<>>

\* no call of getPopulateFromSchema on its own
NoPlan == <<>>

NoWalk == <<>>

InitWith(ms, os, ds, fss, temps) ==
  \E m \in ms, o \in os, d \in ds, f \in fss, t \in temps, tar \in BOOLEAN :
    /\ manifest = m
    /\ archive = ArchiveOf(m, tar)
    /\ opts = o
    /\ faults = f
    /\ db = d
    /\ fsys = FsOf(d, t /\ tar)
    /\ mediaIdMap = NoMap
    /\ pc = "start"
    /\ ti = 1
    /\ ii = 1
    /\ local = ""
    /\ ops = <<>>
    /\ run = 1
    /\ exitCode = -1
    /\ pre = [db |-> d, fsys |-> FsOf(d, t /\ tar), xfs |-> NoExport]
    /\ xfs = NoExport
    /\ nz = NoPayload
    /\ pl = NoPlan
    /\ walk = NoWalk

(***************************************************************************)
(* runImport: input path, extraction, manifest, schema, store load.        *)
(***************************************************************************)
Uid(i) == manifest.types[i].uid

Items(i) == manifest.types[i].items

NTypes == Len(manifest.types)

Exit(code) == pc' = "done" /\ exitCode' = code

\* an exception that no handler catches rejects runImport: the process dies
Crash == pc' = "crashed" /\ exitCode' = 1

\* lines 641-665
ResolveInput ==
  /\ pc = "start"
  /\ IF archive.exists THEN pc' = "extract" /\ exitCode' = exitCode ELSE Exit(1)
  /\ UNCHANGED <<walk, pl, nz, manifest, archive, opts, faults, db, fsys, mediaIdMap, ti, ii,
                 local, ops, run, pre, xfs>>

\* lines 669-720: the archive is extracted into temp-<name> beside it, whatever
\* the options; a directory of that name is removed first
ExtractArchive ==
  /\ pc = "extract"
  /\ IF ~archive.tar
     THEN pc' = "manifest" /\ exitCode' = exitCode /\ fsys' = fsys
     ELSE IF ~archive.extracts \/ ~archive.hasData
     THEN Exit(1) /\ fsys' = [fsys EXCEPT !.temp = FALSE]
     ELSE pc' = "manifest" /\ exitCode' = exitCode /\ fsys' = [fsys EXCEPT !.temp = TRUE]
  /\ UNCHANGED <<walk, pl, nz, manifest, archive, opts, faults, db, mediaIdMap, ti, ii,
                 local, ops, run, pre, xfs>>

\* lines 722-729: JSON.parse is not guarded
LoadManifest ==
  /\ pc = "manifest"
  /\ IF ~archive.hasData
     THEN Exit(1) /\ fsys' = [fsys EXCEPT !.temp = FALSE]
     ELSE IF ~archive.parses
     THEN Crash /\ fsys' = fsys
     ELSE pc' = "schema" /\ exitCode' = exitCode /\ fsys' = fsys
  /\ UNCHANGED <<walk, pl, nz, manifest, archive, opts, faults, db, mediaIdMap, ti, ii,
                 local, ops, run, pre, xfs>>

\* importSourceCode, lines 437-495: copies the api and component directories of
\* the export over the project's (cpSync with force), unless dryRun
importSourceCode(f) ==
  IF opts.dryRun THEN f
  ELSE [f EXCEPT !.schema = {x \in @ : x.name \notin archive.schema}
                              \cup {SrcDir(n, "export") : n \in archive.schema}]

\* a pre-boot import that does not look at --skip-schema
PreBootSchemaAlways ==
  /\ pc = "schema"
  /\ fsys' = IF ~opts.clean THEN importSourceCode(fsys) ELSE fsys
  /\ pc' = "load"
  /\ UNCHANGED <<walk, pl, nz, manifest, archive, opts, faults, db, mediaIdMap, ti, ii,
                 local, ops, run, exitCode, pre, xfs>>

\* lines 731-738
PreBootSchema ==
  /\ pc = "schema"
  /\ fsys' = IF ~opts.clean /\ ~opts.skipSchema THEN importSourceCode(fsys) ELSE fsys
  /\ pc' = "load"
  /\ UNCHANGED <<walk, pl, nz, manifest, archive, opts, faults, db, mediaIdMap, ti, ii,
                 local, ops, run, exitCode, pre, xfs>>

\* lines 740-765 with loadLocalStrapi (utils.js 28-54), which exits the process
\* itself when the store cannot be loaded
LoadStrapi ==
  /\ pc = "load"
  /\ IF Rejects("load", "", "", "")
     THEN Exit(1)
     ELSE /\ pc' = IF opts.clean THEN "cleanup" ELSE "media"
          /\ exitCode' = exitCode
  /\ ti' = 1
  /\ ii' = 1
  /\ UNCHANGED <<walk, pl, nz, manifest, archive, opts, faults, db, fsys, mediaIdMap,
                 local, ops, run, pre, xfs>>

(***************************************************************************)
(* runImport --clean: cleanup of entries, schema files and media, then     *)
(* the exit of the clean-only mode.                                        *)
(***************************************************************************)
\* the cleanup of the first revision (lib/import.js 340-350): the whole table
CleanItemsWholeTable(d, o, uid, items) ==
  [db  |-> [d EXCEPT !.entries = {r \in @ : r.uid # uid}],
   ops |-> Append(o, Op("delete", uid, "", "", TRUE))]

RECURSIVE CleanItemsUntilRejected(_, _, _, _)
\* a cleanup whose loop ends with the first rejected delete
CleanItemsUntilRejected(d, o, uid, items) ==
  IF items = <<>> THEN [db |-> d, ops |-> o]
  ELSE LET doc == Head(items).documentId IN
       IF doc = "" THEN CleanItemsUntilRejected(d, o, uid, Tail(items))
       ELSE IF Rejects("delete", uid, doc, "")
       THEN [db |-> d, ops |-> Append(o, Op("delete", uid, doc, "", FALSE))]
       ELSE CleanItemsUntilRejected(DocDelete(d, uid, doc),
                                    Append(o, Op("delete", uid, doc, "", TRUE)), uid,
                                    Tail(items))

RECURSIVE CleanItems(_, _, _, _)
\* lines 812-834: one delete per manifest item, addressed by documentId; a
\* rejected delete is swallowed
CleanItems(d, o, uid, items) ==
  IF items = <<>> THEN [db |-> d, ops |-> o]
  ELSE LET doc == Head(items).documentId IN
       IF doc = "" THEN CleanItems(d, o, uid, Tail(items))
       ELSE IF Rejects("delete", uid, doc, "")
       THEN CleanItems(d, Append(o, Op("delete", uid, doc, "", FALSE)), uid, Tail(items))
       ELSE CleanItems(DocDelete(d, uid, doc),
                       Append(o, Op("delete", uid, doc, "", TRUE)), uid, Tail(items))

\* lines 792-810: the local document of a single type is deleted outright
CleanSingle(d, o, uid) ==
  LET doc == FindFirstLocal(d, uid) IN
  IF doc = "" THEN [db |-> d, ops |-> o]
  ELSE IF Rejects("delete", uid, doc, "")
  THEN [db |-> d, ops |-> Append(o, Op("delete", uid, doc, "", FALSE))]
  ELSE [db |-> DocDelete(d, uid, doc), ops |-> Append(o, Op("delete", uid, doc, "", TRUE))]

\* lines 776-836, one content type of the manifest
CleanType(d, o, i) ==
  IF Items(i) = <<>> \/ opts.dryRun THEN [db |-> d, ops |-> o]
  ELSE IF Kind(Uid(i)) = "singleType" THEN CleanSingle(d, o, Uid(i))
  ELSE CleanItems(d, o, Uid(i), Items(i))

\* cleanSourceCode, lines 507-580: removes the project files the export holds
cleanSourceCode(f) ==
  IF opts.dryRun THEN f
  ELSE [f EXCEPT !.schema = {x \in @ : x.name \notin archive.schema}]

\* lines 767-846: the whole block is guarded by !options.skipSchema
CleanupEntries ==
  /\ pc = "cleanup"
  /\ IF opts.skipSchema
     THEN /\ pc' = "cleanMedia"
          /\ UNCHANGED <<db, ops, fsys, ti>>
     ELSE IF ti > NTypes
     THEN /\ fsys' = cleanSourceCode(fsys)
          /\ pc' = "cleanMedia"
          /\ UNCHANGED <<db, ops, ti>>
     ELSE LET r == CleanType(db, ops, ti) IN
          /\ db' = r.db
          /\ ops' = r.ops
          /\ ti' = ti + 1
          /\ UNCHANGED <<pc, fsys>>
  /\ UNCHANGED <<walk, pl, nz, manifest, archive, opts, faults, mediaIdMap, ii, local, run,
                 exitCode, pre, xfs>>

\* lines 848-878, one media item of the manifest: the asset found by its hash is
\* removed through the upload service, record and bytes
CleanMedia ==
  /\ pc = "cleanMedia"
  /\ IF opts.skipMedia \/ ii > Len(manifest.media)
     THEN /\ pc' = "cleanExit"
          /\ UNCHANGED <<db, ops, fsys, ii>>
     ELSE LET h  == HashOf(manifest.media[ii])
              ex == FindFileByHash(db, h)
          IN /\ ii' = ii + 1
             /\ pc' = pc
             /\ IF opts.dryRun \/ ex = 0
                THEN UNCHANGED <<db, ops, fsys>>
                ELSE IF Rejects("remove", h, "", "")
                THEN /\ ops' = Append(ops, Op("removeFile", "", h, "", FALSE))
                     /\ UNCHANGED <<db, fsys>>
                ELSE /\ ops' = Append(ops, Op("removeFile", "", h, "", TRUE))
                     /\ db' = FileRemove(db, ex)
                     /\ fsys' = [fsys EXCEPT !.uploads = @ \ {h}]
  /\ UNCHANGED <<walk, pl, nz, manifest, archive, opts, faults, mediaIdMap, ti, local, run,
                 exitCode, pre, xfs>>

\* --clean as a cleanup before the import (the option as index.js describes it)
CleanThenImport ==
  /\ pc = "cleanExit"
  /\ pc' = "media"
  /\ ii' = 1
  /\ ti' = 1
  /\ UNCHANGED <<walk, pl, nz, manifest, archive, opts, faults, db, fsys, mediaIdMap, local,
                 ops, run, exitCode, pre, xfs>>

\* lines 880-892
CleanExit ==
  /\ pc = "cleanExit"
  /\ fsys' = [fsys EXCEPT !.temp = FALSE]
  /\ Exit(0)
  /\ UNCHANGED <<walk, pl, nz, manifest, archive, opts, faults, db, mediaIdMap, ti, ii, local,
                 ops, run, pre, xfs>>

(***************************************************************************)
(* runImport: media, view configurations, locales.                         *)
(***************************************************************************)
\* an import of media that keeps the id the asset had in the source
importMediaKeepsSourceId(st, m) ==
  IF opts.dryRun THEN st
  ELSE LET h  == HashOf(m)
           ex == FindFileByHash(st.db, h) IN
       IF ex # 0 THEN [st EXCEPT !.map = Put(@, m, m)]
       ELSE CopyAndCreate(st, m, MNull, MNull).st

\* importMedia, lines 36-117, one media item
importMedia(st, m) ==
  IF opts.dryRun THEN st
  ELSE LET h  == HashOf(m)
           ex == FindFileByHash(st.db, h) IN
       IF ex # 0 THEN [st EXCEPT !.map = Put(@, m, ex)]
       ELSE IF h \in archive.files /\ Rejects("createFileBulk", h, "", "")
                 /\ ~(h \notin st.up /\ Rejects("copy", h, "", ""))
       \* the creation at line 108 is rejected this once (lines 113-115)
       THEN [st EXCEPT !.up  = @ \cup {h},
                       !.ops = Append(@, Op("createFile", "", h, "", FALSE))]
       ELSE CopyAndCreate(st, m, MNull, MNull).st

ImportMedia ==
  /\ pc = "media"
  /\ IF ii > Len(manifest.media)
     THEN /\ pc' = "views"
          /\ UNCHANGED <<db, mediaIdMap, fsys, ops, ii, exitCode>>
     ELSE LET r == importMedia(St(db, mediaIdMap, fsys.uploads, ops), manifest.media[ii])
          IN /\ db' = r.db
             /\ mediaIdMap' = r.map
             /\ fsys' = [fsys EXCEPT !.uploads = r.up]
             /\ ops' = r.ops
             /\ ii' = ii + 1
             /\ IF r.thrown THEN Crash ELSE UNCHANGED <<pc, exitCode>>
  /\ UNCHANGED <<walk, pl, nz, manifest, archive, opts, faults, ti, local, run, pre, xfs>>

RECURSIVE ViewsImported(_, _, _)
\* importViews, lines 388-426: the stored configuration is updated or created
ViewsImported(d, o, uids) ==
  IF uids = <<>> \/ opts.dryRun THEN [db |-> d, ops |-> o]
  ELSE LET u == Head(uids) IN
       ViewsImported([d EXCEPT !.views[u] = "imported"],
                     Append(o, Op(IF d.views[u] = "none" THEN "createView" ELSE "updateView",
                                  u, "", "", TRUE)),
                     Tail(uids))

\* lines 904-908
ImportViews ==
  /\ pc = "views"
  /\ LET r == ViewsImported(db, ops, manifest.views) IN
       /\ db' = r.db
       /\ ops' = r.ops
  /\ pc' = "locales"
  /\ ii' = 1
  /\ UNCHANGED <<walk, pl, nz, manifest, archive, opts, faults, fsys, mediaIdMap, ti, local, run,
                 exitCode, pre, xfs>>

\* ensureLocaleExists, lines 588-604: takes no options
ensureLocaleExists(d, o, code) ==
  IF code = "" THEN [db |-> d, ops |-> o]
  ELSE IF code \in d.locales THEN [db |-> d, ops |-> o]
  ELSE IF Rejects("createLocale", code, "", "")
  THEN [db |-> d, ops |-> Append(o, Op("createLocale", "", code, "", FALSE))]
  ELSE [db |-> [d EXCEPT !.locales = @ \cup {code}],
        ops |-> Append(o, Op("createLocale", "", code, "", TRUE))]

\* lines 910-916, one locale of the manifest
\* the locale phase followed by the pre-cleanup of the first revision
\* (lib/import.js 339-350): the table of every collection type is emptied
ImportLocalesThenPreCleanup ==
  /\ pc = "locales"
  /\ IF ii > Len(manifest.locales)
     THEN /\ pc' = "phase1"
          /\ ti' = 1
          /\ ii' = 1
          /\ db' = [db EXCEPT !.entries =
                     {r \in @ : ~(Kind(r.uid) = "collectionType"
                                    /\ \E i \in 1..NTypes : Uid(i) = r.uid)}]
          /\ ops' = ops
     ELSE LET r == ensureLocaleExists(db, ops, manifest.locales[ii]) IN
          /\ db' = r.db
          /\ ops' = r.ops
          /\ ii' = ii + 1
          /\ UNCHANGED <<pc, ti>>
  /\ UNCHANGED <<walk, pl, nz, manifest, archive, opts, faults, fsys, mediaIdMap, local, run,
                 exitCode, pre, xfs>>

ImportLocales ==
  /\ pc = "locales"
  /\ IF ii > Len(manifest.locales)
     THEN /\ pc' = "phase1"
          /\ ti' = 1
          /\ ii' = 1
          /\ UNCHANGED <<db, ops>>
     ELSE LET r == ensureLocaleExists(db, ops, manifest.locales[ii]) IN
          /\ db' = r.db
          /\ ops' = r.ops
          /\ ii' = ii + 1
          /\ UNCHANGED <<pc, ti>>
  /\ UNCHANGED <<walk, pl, nz, manifest, archive, opts, faults, fsys, mediaIdMap, local, run,
                 exitCode, pre, xfs>>

(***************************************************************************)
(* runImport: Phase 1 (creation without relations), Phase 2 (relations and *)
(* publishing), the single type pass.  Rejections are keyed by the         *)
(* manifest entry the call is made for.                                    *)
(***************************************************************************)
Logged(st, op, uid, doc, loc, ok) ==
  [st EXCEPT !.ops = Append(@, Op(op, uid, doc, loc, ok))]

\* a single pass: the entry is created or updated and its relations are linked
\* at once
Phase1ItemLinking(st0, e, overlap) ==
  LET mc       == MediaCleaned(st0, e, overlap)
      st       == mc.st
      w        == simplifyPayload(st.db, e, mc, TRUE)
      status   == IF DraftAndPublish(e.uid) THEN "draft" ELSE "published"
      existing == e.documentId # "" /\ FindFirst(st.db, e.uid, e.documentId, e.locale)
      st1      == IF existing
                  THEN Logged([st EXCEPT !.db = DocUpdate(@, e.uid, e.documentId, e.locale,
                                                          w, status)],
                              "update", e.uid, e.documentId, e.locale, TRUE)
                  ELSE Logged([st EXCEPT !.db = DocCreate(@, e.uid, e.documentId, e.locale,
                                                          w, status)],
                              "create", e.uid, e.documentId, e.locale, TRUE)
      full     == simplifyPayload(st1.db, e, mc, FALSE)
  IN Logged([st1 EXCEPT !.db = DocUpdate(@, e.uid, e.documentId, e.locale, full, "draft")],
            "update", e.uid, e.documentId, e.locale, TRUE)

\* a Phase 1 that creates without handing the source documentId to the store
Phase1ItemFreshId(st0, e, overlap) ==
  LET mc       == MediaCleaned(st0, e, overlap)
      st       == mc.st
      w        == simplifyPayload(st.db, e, mc, TRUE)
      status   == IF DraftAndPublish(e.uid) THEN "draft" ELSE "published"
      existing == e.documentId # "" /\ FindFirst(st.db, e.uid, e.documentId, e.locale)
  IN IF existing
     THEN Logged([st EXCEPT !.db = DocUpdate(@, e.uid, e.documentId, e.locale, w, status)],
                 "update", e.uid, e.documentId, e.locale, TRUE)
     ELSE Logged([st EXCEPT !.db = DocCreate(@, e.uid, "", e.locale, w, status)],
                 "create", e.uid, e.documentId, e.locale, TRUE)

\* a Phase 1 that updates an existing entry without asking for the draft state
Phase1ItemPublished(st0, e, overlap) ==
  LET mc       == MediaCleaned(st0, e, overlap)
      st       == mc.st
      w        == simplifyPayload(st.db, e, mc, TRUE)
      status   == IF DraftAndPublish(e.uid) THEN "draft" ELSE "published"
      existing == e.documentId # "" /\ FindFirst(st.db, e.uid, e.documentId, e.locale)
  IN IF existing
     THEN Logged([st EXCEPT !.db = DocUpdate(@, e.uid, e.documentId, e.locale, w, "published")],
                 "update", e.uid, e.documentId, e.locale, TRUE)
     ELSE Logged([st EXCEPT !.db = DocCreate(@, e.uid, e.documentId, e.locale, w, status)],
                 "create", e.uid, e.documentId, e.locale, TRUE)

\* lines 935-1001, one item of a collection type
Phase1Item(st0, e, overlap) ==
  LET mc       == MediaCleaned(st0, e, overlap)
      st       == mc.st
      w        == simplifyPayload(st.db, e, mc, TRUE)
      status   == IF DraftAndPublish(e.uid) THEN "draft" ELSE "published"
      existing == e.documentId # "" /\ FindFirst(st.db, e.uid, e.documentId, e.locale)
  IN IF st.thrown THEN st
     ELSE IF existing
     THEN IF Rejects("update", e.uid, e.documentId, e.locale)
          THEN Logged(st, "update", e.uid, e.documentId, e.locale, FALSE)
          ELSE Logged([st EXCEPT !.db = DocUpdate(@, e.uid, e.documentId, e.locale, w, status)],
                      "update", e.uid, e.documentId, e.locale, TRUE)
     ELSE IF Rejects("create", e.uid, e.documentId, e.locale)
          THEN Logged(st, "create", e.uid, e.documentId, e.locale, FALSE)
          ELSE Logged([st EXCEPT !.db = DocCreate(@, e.uid, e.documentId, e.locale, w, status)],
                      "create", e.uid, e.documentId, e.locale, TRUE)

\* a publish step that does not look at publishedAt nor at the type's options
PublishedAlways(st, e, doc) ==
  IF Rejects("publish", e.uid, e.documentId, e.locale)
  THEN Logged(st, "publish", e.uid, doc, e.locale, FALSE)
  ELSE Logged([st EXCEPT !.db = DocPublish(@, e.uid, doc, e.locale)],
              "publish", e.uid, doc, e.locale, TRUE)

\* lines 1043-1056: publish when the record carries publishedAt and the type has
\* draft & publish
Published(st, e, doc) ==
  IF ~(e.publishedAt /\ DraftAndPublish(e.uid)) THEN st
  ELSE IF Rejects("publish", e.uid, e.documentId, e.locale)
  THEN Logged(st, "publish", e.uid, doc, e.locale, FALSE)
  ELSE Logged([st EXCEPT !.db = DocPublish(@, e.uid, doc, e.locale)],
              "publish", e.uid, doc, e.locale, TRUE)

\* lines 1018-1073, one item of a collection type
Phase2Item(st0, e, overlap) ==
  IF e.documentId = "" THEN st0
  ELSE LET mc == MediaCleaned(st0, e, overlap)
           st == mc.st
           w  == simplifyPayload(st.db, e, mc, FALSE)
       IN IF st.thrown THEN st
          ELSE IF Rejects("update", e.uid, e.documentId, e.locale)
          THEN Logged(st, "update", e.uid, e.documentId, e.locale, FALSE)
          ELSE Published(
                 Logged([st EXCEPT !.db = DocUpdate(@, e.uid, e.documentId, e.locale, w, "draft")],
                        "update", e.uid, e.documentId, e.locale, TRUE),
                 e, e.documentId)

\* lines 1100-1160, one exported locale of a single type; loc is localEntry
SingleItem(st0, e, loc, overlap) ==
  LET mc     == MediaCleaned(st0, e, overlap)
      st     == mc.st
      w      == simplifyPayload(st.db, e, mc, FALSE)
      status == IF DraftAndPublish(e.uid) THEN "draft" ELSE "published"
  IN IF st.thrown THEN [st |-> st, local |-> loc]
     ELSE IF loc # ""
     THEN IF Rejects("update", e.uid, e.documentId, e.locale)
          THEN [st |-> Logged(st, "update", e.uid, loc, e.locale, FALSE), local |-> loc]
          ELSE [st |-> Published(
                         Logged([st EXCEPT !.db = DocUpdate(@, e.uid, loc, e.locale, w, status)],
                                "update", e.uid, loc, e.locale, TRUE), e, loc),
                local |-> loc]
     ELSE IF Rejects("create", e.uid, e.documentId, e.locale)
          THEN [st |-> Logged(st, "create", e.uid, "", e.locale, FALSE), local |-> loc]
          ELSE LET new == DocCreatedId(st.db, "") IN
               [st |-> Published(
                         Logged([st EXCEPT !.db = DocCreate(@, e.uid, "", e.locale, w, status)],
                                "create", e.uid, new, e.locale, TRUE), e, new),
                local |-> new]

\* the part of the state an item handler changes
Stored(st) ==
  /\ db' = st.db
  /\ mediaIdMap' = st.map
  /\ fsys' = [fsys EXCEPT !.uploads = st.up]
  /\ ops' = st.ops
  /\ IF st.thrown THEN Crash ELSE UNCHANGED <<pc, exitCode>>

Now == St(db, mediaIdMap, fsys.uploads, ops)

\* lines 918-1002
Phase1 ==
  /\ pc = "phase1"
  /\ IF ti > NTypes
     THEN /\ pc' = "phase2"
          /\ ti' = 1
          /\ ii' = 1
          /\ UNCHANGED <<db, mediaIdMap, fsys, ops, exitCode>>
     ELSE IF opts.dryRun \/ Kind(Uid(ti)) = "singleType" \/ ii > Len(Items(ti))
     THEN /\ ti' = ti + 1
          /\ ii' = 1
          /\ UNCHANGED <<db, mediaIdMap, fsys, ops, pc, exitCode>>
     ELSE /\ \E overlap \in BOOLEAN : Stored(Phase1Item(Now, Items(ti)[ii], overlap))
          /\ ii' = ii + 1
          /\ ti' = ti
  /\ UNCHANGED <<walk, pl, nz, manifest, archive, opts, faults, local, run, pre, xfs>>

\* lines 1004-1074
Phase2 ==
  /\ pc = "phase2"
  /\ IF ti > NTypes
     THEN /\ pc' = "single"
          /\ ti' = 1
          /\ ii' = 0
          /\ UNCHANGED <<db, mediaIdMap, fsys, ops, exitCode>>
     ELSE IF opts.dryRun \/ Kind(Uid(ti)) = "singleType" \/ ii > Len(Items(ti))
     THEN /\ ti' = ti + 1
          /\ ii' = 1
          /\ UNCHANGED <<db, mediaIdMap, fsys, ops, pc, exitCode>>
     ELSE /\ \E overlap \in BOOLEAN : Stored(Phase2Item(Now, Items(ti)[ii], overlap))
          /\ ii' = ii + 1
          /\ ti' = ti
  /\ UNCHANGED <<walk, pl, nz, manifest, archive, opts, faults, local, run, pre, xfs>>

\* lines 1076-1164; ii = 0 is the lookup of localEntry (lines 1091-1097), which
\* no handler guards
SingleTypes ==
  /\ pc = "single"
  /\ IF ti > NTypes
     THEN /\ pc' = "finish"
          /\ UNCHANGED <<db, mediaIdMap, fsys, ops, exitCode, ti, ii, local>>
     ELSE IF Kind(Uid(ti)) # "singleType" \/ opts.dryRun \/ Items(ti) = <<>>
             \/ ii > Len(Items(ti))
     THEN /\ ti' = ti + 1
          /\ ii' = 0
          /\ UNCHANGED <<db, mediaIdMap, fsys, ops, pc, exitCode, local>>
     ELSE IF ii = 0
     THEN /\ IF Rejects("lookup", Uid(ti), "", "")
             THEN Crash /\ local' = local
             ELSE local' = FindFirstLocal(db, Uid(ti)) /\ UNCHANGED <<pc, exitCode>>
          /\ ii' = 1
          /\ UNCHANGED <<db, mediaIdMap, fsys, ops, ti>>
     ELSE /\ \E overlap \in BOOLEAN :
               LET r == SingleItem(Now, Items(ti)[ii], local, overlap) IN
                 Stored(r.st) /\ local' = r.local
          /\ ii' = ii + 1
          /\ ti' = ti
  /\ UNCHANGED <<walk, pl, nz, manifest, archive, opts, faults, run, pre, xfs>>

\* lines 1167-1182
Finish ==
  /\ pc = "finish"
  /\ fsys' = [fsys EXCEPT !.temp = FALSE]
  /\ Exit(0)
  /\ UNCHANGED <<walk, pl, nz, manifest, archive, opts, faults, db, mediaIdMap, ti, ii, local,
                 ops, run, pre, xfs>>

\* the command is invoked again with the same arguments: a new process, whose
\* module-level mediaIdMap is empty
Rerun ==
  /\ pc \in {"done", "crashed"}
  /\ run < MaxRuns
  /\ run' = run + 1
  /\ pc' = "start"
  /\ exitCode' = -1
  /\ mediaIdMap' = NoMap
  /\ ops' = <<>>
  /\ ti' = 1
  /\ ii' = 1
  /\ local' = ""
  /\ pre' = [db |-> db, fsys |-> fsys, xfs |-> xfs]
  /\ UNCHANGED <<walk, pl, nz, manifest, archive, opts, faults, db, fsys, xfs>>

(***************************************************************************)
(* runExport (src/README.md lines 314-686), run against a source store.    *)
(***************************************************************************)
AllSeq == PostUniverse \o TagUniverse \o HomeUniverse

SrcId(e) == CHOOSE i \in DOMAIN AllSeq : AllSeq[i] = e

\* a source store holding the entries S: relations point to the rows of S
SrcRow(S, e) ==
  LET data == [title   |-> e.title,
               seo     |-> e.seo,
               rel     |-> {[target |-> r.target,
                             id |-> Min({SrcId(x) : x \in {y \in S : y.uid = r.target
                                                               /\ y.documentId = r.doc}})] :
                              r \in {q \in e.rel : \E y \in S : y.uid = q.target
                                                            /\ y.documentId = q.doc}},
               cover   |-> IF e.cover = 0 THEN MNull ELSE MId(e.cover),
               gallery |-> [i \in DOMAIN e.gallery |-> MId(e.gallery[i])]]
  IN [id |-> SrcId(e), uid |-> e.uid, documentId |-> e.documentId, locale |-> e.locale,
      data |-> data, draft |-> TRUE, published |-> e.publishedAt,
      live |-> IF e.publishedAt THEN data ELSE EmptyData]

SourceStore(S) ==
  [entries |-> {SrcRow(S, e) : e \in S},
   files   |-> {[id |-> m, hash |-> HashOf(m)] : m \in SrcMedia},
   locales |-> {"en", "fr"},
   views   |-> [u \in Uids |-> IF u = "post" THEN "custom" ELSE "none"],
   nextRow |-> 10, nextFile |-> 10, nextDoc |-> 1]

RECURSIVE SortById(_)
SortById(rows) ==
  IF rows = {} THEN <<>>
  ELSE LET r == CHOOSE x \in rows : \A y \in rows : x.id <= y.id
       IN <<r>> \o SortById(rows \ {r})

\* a row stands for the draft and the published version of one (documentId,
\* locale): draft tells whether the store has the draft version, published whether
\* it has the published one.  The status filter applies to the types with draft &
\* publish only.
InStatus(r, status) ==
  \/ ~DraftAndPublish(r.uid)
  \/ IF status = "draft" THEN r.draft ELSE r.published

\* the publishedAt of the published version of a row
Stamp(r) == r.id

\* a base query that returns the rows of every status
DraftsAndPublished(d, uid) == {r \in d.entries : r.uid = uid}

\* lines 455-459: findMany({ populate, status: 'draft', locale: '*' })
Drafts(d, uid) == {r \in d.entries : r.uid = uid /\ InStatus(r, "draft")}

\* lines 462-466: findMany({ select: ['documentId', 'publishedAt', 'locale'],
\* status: 'published', locale: '*' })
PublishedRows(d, uid) ==
  {[documentId |-> r.documentId, locale |-> r.locale, publishedAt |-> Stamp(r)] :
     r \in {x \in d.entries : x.uid = uid /\ InStatus(x, "published")}}

\* a key that leaves the locale out
KeyByDocument(x) == <<x.documentId>>

\* the key built at lines 472 and 480
KeyOf(x) == <<x.documentId, ":", x.locale>>

\* lines 470-475: publishedMap, one key per published row
publishedMap(published) ==
  [k \in {KeyOf(p) : p \in published} |->
     (CHOOSE p \in published : KeyOf(p) = k).publishedAt]

\* lines 479-491: publishedAt of the merged item, 0 for null
MergedPublishedAt(map, item) ==
  IF KeyOf(item) \in DOMAIN map THEN map[KeyOf(item)] ELSE 0

\* lines 451-494: the draft rows of every locale, each annotated with publishedAt
\* iff a published row of the same documentId and locale exists; relations and
\* media populated
ExportedEntry(d, r) ==
  Entry(r.uid, r.documentId, r.locale,
        MergedPublishedAt(publishedMap(PublishedRows(d, r.uid)), r) # 0,
        r.data.title, r.data.seo,
        {Ref(x.target, (CHOOSE q \in d.entries : q.id = x.id).documentId) :
           x \in {y \in r.data.rel : \E q \in d.entries : q.id = y.id /\ InStatus(q, "draft")}},
        IF r.data.cover.k = "id" THEN r.data.cover.v ELSE 0,
        [i \in DOMAIN r.data.gallery |-> r.data.gallery[i].v])

ExportedItems(d, uid) ==
  LET rows == SortById(Drafts(d, uid))
  IN [i \in DOMAIN rows |-> ExportedEntry(d, rows[i])]

\* a collection that appends every media object it meets
findMediaAll(items, found) ==
  found \o Flatten([k \in DOMAIN items |-> MediaRefs(items[k])])

\* findMedia, lines 166-193: media objects keyed by id, first occurrence kept
findMedia(items, found) ==
  Dedup(found \o Flatten([k \in DOMAIN items |-> MediaRefs(items[k])]))

\* lines 321-388: load the store, settle typesToExport
ExportStart ==
  /\ pc = "xstart"
  /\ IF Rejects("load", "", "", "") THEN Exit(1)
     ELSE IF xfs.types = <<>> THEN Exit(0)
     ELSE pc' = "xprepare" /\ exitCode' = exitCode
  /\ UNCHANGED <<walk, pl, nz, manifest, archive, opts, faults, db, fsys, mediaIdMap, ti, ii,
                 local, ops, run, pre, xfs>>

\* lines 390-415: export-data/ and export-<timestamp>/uploads are created before
\* anything looks at options.dryRun
ExportPrepare ==
  /\ pc = "xprepare"
  /\ xfs' = [xfs EXCEPT !.base = TRUE, !.dir = TRUE]
  /\ manifest' = [types |-> <<>>, media |-> <<>>,
                  locales |-> SelectSeq(<<"en", "fr">>, LAMBDA l : l \in db.locales),
                  views |-> <<>>]
  /\ pc' = "xtypes"
  /\ ti' = 1
  /\ UNCHANGED <<walk, pl, nz, archive, opts, faults, db, fsys, mediaIdMap, ii, local, ops, run,
                 exitCode, pre>>

\* lines 418-507, one requested content type
ExportType ==
  /\ pc = "xtypes"
  /\ IF ti > Len(xfs.types)
     THEN /\ pc' = IF opts.dryRun THEN "xdry" ELSE "xwrite"
          /\ UNCHANGED <<manifest, ti>>
     ELSE LET uid   == xfs.types[ti]
              items == ExportedItems(db, uid)
          IN /\ manifest' =
                  [manifest EXCEPT
                     !.types = Append(@, [uid |-> uid, items |-> items]),
                     !.views = IF db.views[uid] = "none" THEN @ ELSE Append(@, uid),
                     !.media = findMedia(items, @)]
             /\ ti' = ti + 1
             /\ pc' = pc
  /\ UNCHANGED <<walk, pl, nz, archive, opts, faults, db, fsys, mediaIdMap, ii, local, ops, run,
                 exitCode, pre, xfs>>

\* lines 579-595: the dry run removes export-<timestamp>/ only
ExportDryRunExit ==
  /\ pc = "xdry"
  /\ xfs' = [xfs EXCEPT !.dir = FALSE]
  /\ Exit(0)
  /\ UNCHANGED <<walk, pl, nz, manifest, archive, opts, faults, db, fsys, mediaIdMap, ti, ii,
                 local, ops, run, pre>>

\* lines 597-686: source code and media copied, data.json written, the directory
\* archived and removed
ExportWrite ==
  /\ pc = "xwrite"
  /\ archive' = [tar |-> TRUE, exists |-> TRUE, extracts |-> TRUE, hasData |-> TRUE,
                 parses |-> TRUE,
                 files |-> {HashOf(m) : m \in Range(manifest.media)} \cap fsys.uploads,
                 schema |-> Range(xfs.types) \cap {x.name : x \in fsys.schema}]
  /\ xfs' = [xfs EXCEPT !.dir = FALSE, !.tar = TRUE]
  /\ Exit(0)
  /\ UNCHANGED <<walk, pl, nz, manifest, opts, faults, db, fsys, mediaIdMap, ti, ii, local, ops,
                 run, pre>>

ExportStep ==
  \/ ExportStart
  \/ ExportPrepare
  \/ ExportType
  \/ ExportDryRunExit
  \/ ExportWrite

\* requested types: any list of distinct content types, possibly none
TypeLists ==
  {<<>>} \cup {<<u>> : u \in Uids}
    \cup {<<u, v>> : u, v \in Uids} \cup TypeOrders

\* entries of S the source may hold without a draft version: at most one,
\* published
Orphans(S) == {{}} \cup {{e} : e \in {x \in S : x.publishedAt}}

\* the store d without the draft versions of the entries O
WithoutDrafts(d, O) ==
  [d EXCEPT !.entries =
     {IF \E e \in O : SrcId(e) = r.id THEN [r EXCEPT !.draft = FALSE] ELSE r : r \in @}]

InitExport ==
  \E S \in EntrySets, ts \in {t \in TypeLists : \A i, j \in DOMAIN t : i # j => t[i] # t[j]},
     dry \in BOOLEAN, base \in BOOLEAN :
   \E O \in Orphans(S) :
    /\ manifest = [types |-> <<>>, media |-> <<>>, locales |-> <<>>, views |-> <<>>]
    /\ archive = [tar |-> FALSE, exists |-> FALSE, extracts |-> FALSE, hasData |-> FALSE,
                  parses |-> FALSE, files |-> {}, schema |-> {}]
    /\ opts = [clean |-> FALSE, skipSchema |-> FALSE, skipMedia |-> FALSE, dryRun |-> dry]
    /\ faults = {}
    /\ db = WithoutDrafts(SourceStore(S), O)
    /\ fsys = [uploads |-> {"h1", "h2"}, schema |-> {SrcDir(u, "project") : u \in Uids},
               temp |-> FALSE]
    /\ mediaIdMap = NoMap
    /\ pc = "xstart"
    /\ ti = 1
    /\ ii = 1
    /\ local = ""
    /\ ops = <<>>
    /\ run = 1
    /\ exitCode = -1
    /\ xfs = [types |-> ts, base |-> base, dir |-> FALSE, tar |-> FALSE]
    /\ pre = [db |-> WithoutDrafts(SourceStore(S), O),
              fsys |-> [uploads |-> {"h1", "h2"},
                        schema |-> {SrcDir(u, "project") : u \in Uids}, temp |-> FALSE],
              xfs |-> [types |-> ts, base |-> base, dir |-> FALSE, tar |-> FALSE]]
    /\ nz = NoPayload
    /\ pl = NoPlan
    /\ walk = NoWalk

SpecExport == InitExport /\ [][ExportStep]_vars

ImportStep ==
  \/ ResolveInput
  \/ ExtractArchive
  \/ LoadManifest
  \/ PreBootSchema
  \/ LoadStrapi
  \/ ImportMedia
  \/ ImportViews
  \/ ImportLocales
  \/ Phase1
  \/ Phase2
  \/ SingleTypes
  \/ Finish

NoFaults == {{}}

\* the nominal import: no --clean, no --dry-run, nothing rejected
InitImport ==
  InitWith(Manifests,
           {o \in Options : ~o.clean /\ ~o.dryRun /\ ~o.skipMedia /\ ~o.skipSchema},
           Destinations, NoFaults, {FALSE})

NextImport == ImportStep \/ Rerun

SpecImport == InitImport /\ [][NextImport]_vars

CleanStep ==
  \/ CleanupEntries
  \/ CleanMedia
  \/ CleanExit

\* --clean runs: entries, schema files and media of the manifest are removed
InitClean ==
  InitWith(Manifests, {o \in Options : o.clean /\ ~o.dryRun}, Destinations, NoFaults, {FALSE})

NextClean ==
  \/ ResolveInput
  \/ ExtractArchive
  \/ LoadManifest
  \/ PreBootSchema
  \/ LoadStrapi
  \/ CleanStep

SpecClean == InitClean /\ [][NextClean]_vars

\* --dry-run runs, with or without --clean; a directory temp-<name> may be left
\* beside the archive by an earlier run
InitDryRun ==
  InitWith(Manifests, {o \in Options : o.dryRun /\ ~o.skipMedia}, Destinations, NoFaults,
           BOOLEAN)

NextDryRun == ImportStep \/ CleanStep

SpecDryRun == InitDryRun /\ [][NextDryRun]_vars

\* what the environment may reject for one item
ItemFaults ==
  {Fault(s, e.uid, e.documentId, e.locale) :
     s \in {"create", "update", "publish"}, e \in AllEntries}
  \cup {Fault(s, h, "", "") : s \in {"copy", "createFile"}, h \in {"h1", "h2"}}
  \cup {Fault("lookup", "home", "", "")}

FaultSets == {F \in SUBSET ItemFaults : Cardinality(F) <= MaxFaults}

\* imports in which the environment rejects some per-item operations
InitFaults ==
  InitWith({m \in Manifests : m.types[1].uid = "post"},
           {o \in Options : ~o.clean /\ ~o.dryRun /\ ~o.skipMedia /\ ~o.skipSchema},
           {DestEmpty, DestOverlap}, FaultSets, {FALSE})

SpecFaults == InitFaults /\ [][ImportStep]_vars

(***************************************************************************)
(* simplifyPayload called as runImport calls it for one item: in Pass 1    *)
(* with stripRelations (line 943), in Pass 2 without (line 1026).          *)
(***************************************************************************)
MaxDepth == 2        \* nesting of components below the entry
MaxLen   == 2        \* elements of a multiple relation

Components == {"frag", "gone"}

\* relation values of a nested fragment, of the entry, of a multiple relation
NestedRefs == {Absent, RefObj("a")}

EntryRefs == {Absent, Null, RefObj("a"), RefObj("q"), RefObj(""), Num(7), Str("a")}

ListRefs == {RefObj("t"), RefObj("q"), Num(7)}

RefLists ==
  {Absent} \cup {Arr(q) : q \in UNION {[1..n -> ListRefs] : n \in 0..MaxLen}}

Leaves == {Obj("", l, Absent, Absent, Absent, Absent, Absent) : l \in NestedRefs}

\* the first element of every repeatable component and dynamic zone
FirstItem == Obj("", RefObj("a"), Absent, Absent, Absent, Absent, Absent)

\* what an object may nest: nothing, a component, a repeatable component, or a
\* dynamic zone, over the fragments sub
Nesting(sub) ==
  {[child |-> Absent, list |-> Absent, zone |-> Absent]}
    \cup {[child |-> x, list |-> Absent, zone |-> Absent] : x \in sub}
    \cup {[child |-> Absent, list |-> Arr(<<FirstItem, y>>), zone |-> Absent] : y \in sub}
    \cup {[child |-> Absent, list |-> Absent,
           zone |-> Arr(<<[FirstItem EXCEPT !.comp = "frag"], [y EXCEPT !.comp = c]>>)] :
            y \in sub, c \in Components}

RECURSIVE Frags(_)
\* fragments nested at most depth deep
Frags(depth) ==
  IF depth = 0 THEN Leaves
  ELSE {Obj("", l, Absent, n.child, n.list, n.zone, Absent) :
          l \in NestedRefs, n \in Nesting(Frags(depth - 1))}

\* entries whose components nest at most depth deep
Payloads(depth) ==
  {Obj("", l, ls, n.child, n.list, n.zone, x) :
     l \in EntryRefs, ls \in RefLists, n \in Nesting(Frags(depth - 1)),
     x \in {Absent, Scalar(2), RefObj("a")}}

\* a destination that holds targets of the relations
DestLinked ==
  Dest({SeedRow(1, "post", "a", "en", 9, TRUE), SeedRow(2, "tag", "t", "en", 8, TRUE),
        SeedRow(3, "post", "a", "fr", 9, FALSE)},
       {}, {"en", "fr"})

InitNormalize ==
  \E data \in Payloads(MaxDepth), known \in SUBSET Components, d \in {DestEmpty, DestLinked} :
    /\ nz = [data |-> data, known |-> known, stripped |-> Absent, resolved |-> Absent]
    /\ pl = NoPlan
    /\ walk = NoWalk
    /\ manifest = [types |-> <<>>, media |-> <<>>, locales |-> <<>>, views |-> <<>>]
    /\ archive = ArchiveOf(manifest, FALSE)
    /\ opts = [clean |-> FALSE, skipSchema |-> FALSE, skipMedia |-> FALSE, dryRun |-> FALSE]
    /\ faults = {}
    /\ db = d
    /\ fsys = FsOf(d, FALSE)
    /\ mediaIdMap = NoMap
    /\ pc = "pass1"
    /\ ti = 1
    /\ ii = 1
    /\ local = ""
    /\ ops = <<>>
    /\ run = 1
    /\ exitCode = -1
    /\ pre = [db |-> d, fsys |-> FsOf(d, FALSE), xfs |-> NoExport]
    /\ xfs = NoExport

\* line 943: creationPayload
NormalizeStripped ==
  /\ pc = "pass1"
  /\ nz' = [nz EXCEPT !.stripped = SimplifyNode(db, nz.data, nz.known, TRUE)]
  /\ pc' = "pass2"
  /\ UNCHANGED <<walk, pl, manifest, archive, opts, faults, db, fsys, mediaIdMap, ti, ii,
                 local, ops, run, exitCode, pre, xfs>>

\* line 1026: fullUpdatePayload
NormalizeResolved ==
  /\ pc = "pass2"
  /\ nz' = [nz EXCEPT !.resolved = SimplifyNode(db, nz.data, nz.known, FALSE)]
  /\ pc' = "normalized"
  /\ UNCHANGED <<walk, pl, manifest, archive, opts, faults, db, fsys, mediaIdMap, ti, ii,
                 local, ops, run, exitCode, pre, xfs>>

NextNormalize == NormalizeStripped \/ NormalizeResolved

SpecNormalize == InitNormalize /\ [][NextNormalize]_vars

\* the create, update and publish calls of Phase 1 and Phase 2 the environment
\* may reject
LinkFaults ==
  {Fault(s, e.uid, e.documentId, e.locale) :
     s \in {"create", "update", "publish"},
     e \in Range(PostUniverse) \cup Range(TagUniverse)}

\* imports in which the environment rejects calls made for collection entries
InitLinking ==
  InitWith({m \in Manifests : m.types[1].uid = "post" /\ m.types[2].uid = "tag"},
           {o \in Options : ~o.clean /\ ~o.dryRun /\ ~o.skipMedia /\ ~o.skipSchema},
           {DestEmpty, DestOverlap},
           {F \in SUBSET LinkFaults : Cardinality(F) <= MaxFaults}, {FALSE})

SpecLinking == InitLinking /\ [][ImportStep]_vars

\* what the environment may do to the assets: reject every creation of a file
\* record with a given hash, or only the one the bulk pass attempts
MediaFaults ==
  {Fault(s, h, "", "") : s \in {"createFile", "createFileBulk"}, h \in {"h1", "h2"}}

\* hashes whose bytes are not in the archive's uploads directory (the export
\* copies a file only if the source still has it)
LostFiles == {{}, {"h1"}, {"h2"}}

\* imports in which assets are missing from the archive or are rejected
InitMedia ==
  \E m \in {x \in Manifests : x.types[1].uid = "post" /\ x.types[2].uid = "tag"},
     d \in {DestEmpty, DestOverlap},
     f \in {F \in SUBSET MediaFaults : Cardinality(F) <= MaxFaults},
     lost \in LostFiles :
    /\ manifest = m
    /\ archive = [ArchiveOf(m, FALSE) EXCEPT !.files = @ \ lost]
    /\ opts = [clean |-> FALSE, skipSchema |-> FALSE, skipMedia |-> FALSE, dryRun |-> FALSE]
    /\ faults = f
    /\ db = d
    /\ fsys = FsOf(d, FALSE)
    /\ mediaIdMap = NoMap
    /\ pc = "start"
    /\ ti = 1
    /\ ii = 1
    /\ local = ""
    /\ ops = <<>>
    /\ run = 1
    /\ exitCode = -1
    /\ pre = [db |-> d, fsys |-> FsOf(d, FALSE), xfs |-> NoExport]
    /\ xfs = NoExport
    /\ nz = NoPayload
    /\ pl = NoPlan
    /\ walk = NoWalk

SpecMedia == InitMedia /\ [][ImportStep]_vars

\* a destination after an import: every entry and both assets of the export,
\* next to a foreign entry
DestImported ==
  Dest({SeedRow(1, "post", "a", "en", 1, TRUE), SeedRow(2, "post", "a", "fr", 2, FALSE),
        SeedRow(3, "post", "b", "en", 3, FALSE), SeedRow(4, "tag", "t", "en", 4, TRUE),
        SeedRow(5, "home", "h", "en", 5, TRUE), SeedRow(6, "post", "z", "en", 7, TRUE)},
       {[id |-> 1, hash |-> "h1"], [id |-> 2, hash |-> "h2"]}, {"en", "fr"})

\* the deletions the store may reject during --clean
DeleteFaults ==
  {Fault("delete", e.uid, e.documentId, "") : e \in AllEntries}
    \cup {Fault("remove", h, "", "") : h \in {"h1", "h2"}}

\* --clean runs in which the store rejects deletions
InitCleanFaults ==
  InitWith({m \in Manifests : m.types[1].uid = "post" /\ m.types[2].uid = "tag"},
           {o \in Options : o.clean /\ ~o.dryRun}, {DestOverlap, DestImported},
           {F \in SUBSET DeleteFaults : Cardinality(F) <= MaxFaults}, {FALSE})

SpecCleanFaults == InitCleanFaults /\ [][NextClean]_vars

\* locale lists of a manifest; "" stands for a locale object without a code
LocaleLists == {<<"en", "fr">>, <<"fr", "", "de">>, <<"en">>}

\* the creation of a locale the environment may reject
LocaleFaults == {{}} \cup {{Fault("createLocale", l, "", "")} : l \in {"fr", "de"}}

\* imports whose manifests list locales the destination may lack
InitLocales ==
  InitWith({MkManifest(S, <<"post", "tag", "home">>, FALSE, SrcMedia, locs, <<"post">>) :
              S \in EntrySets, locs \in LocaleLists},
           {o \in Options : ~o.clean /\ ~o.dryRun /\ ~o.skipMedia /\ ~o.skipSchema},
           {DestEmpty, DestOverlap}, LocaleFaults, {FALSE})

SpecLocales == InitLocales /\ [][ImportStep]_vars

\* runs under every combination of --clean, --skip-schema and --skip-media
InitFlags ==
  InitWith({m \in Manifests : m.types[1].uid = "post" /\ m.types[2].uid = "tag"},
           {o \in Options : ~o.dryRun}, Destinations, NoFaults, {FALSE})

NextFlags == ImportStep \/ CleanStep

SpecFlags == InitFlags /\ [][NextFlags]_vars

\* how the input can be broken (lines 662-729)
Breakages == {"none", "missing", "unextractable", "noData", "corrupt"}

BrokenArchive(m, tar, b) ==
  [ArchiveOf(m, tar) EXCEPT !.exists   = b # "missing",
                            !.extracts = b # "unextractable",
                            !.hasData  = b # "noData",
                            !.parses   = b # "corrupt"]

LoadFaults == {{}, {Fault("load", "", "", "")}}

\* runs whose setup may fail: the input path is missing, the archive does not
\* extract, data.json is missing or corrupt, the store does not load
InitSetup ==
  \E m \in {x \in Manifests : x.types[1].uid = "post" /\ x.types[2].uid = "tag"},
     o \in {x \in Options : ~x.dryRun /\ ~x.skipMedia},
     d \in {DestEmpty, DestOverlap}, f \in LoadFaults, tar \in BOOLEAN,
     b \in Breakages :
    /\ (b = "unextractable" => tar)
    /\ manifest = m
    /\ archive = BrokenArchive(m, tar, b)
    /\ opts = o
    /\ faults = f
    /\ db = d
    /\ fsys = FsOf(d, FALSE)
    /\ mediaIdMap = NoMap
    /\ pc = "start"
    /\ ti = 1
    /\ ii = 1
    /\ local = ""
    /\ ops = <<>>
    /\ run = 1
    /\ exitCode = -1
    /\ pre = [db |-> d, fsys |-> FsOf(d, FALSE), xfs |-> NoExport]
    /\ xfs = NoExport
    /\ nz = NoPayload
    /\ pl = NoPlan
    /\ walk = NoWalk

NextSetup == ImportStep \/ CleanStep

SpecSetup == InitSetup /\ [][NextSetup]_vars

(***************************************************************************)
(* getPopulateFromSchema (README 243-293) called as runExport calls it for *)
(* one content type (line 447), executed frame by frame.  A schema is the  *)
(* list of its attributes; the registry maps the content type "page" and   *)
(* the registered components to their schemas.                             *)
(***************************************************************************)
\* depth = 7, line 243
DefaultDepth == 7

\* frames the call stack holds before the engine raises RangeError
MaxStack == 9

Comp(k, c) == [key |-> k, type |-> "component", component |-> c, components |-> <<>>]

Zone(k, cs) == [key |-> k, type |-> "dynamiczone", component |-> "", components |-> cs]

Leaf(k, t) == [key |-> k, type |-> t, component |-> "", components |-> <<>>]

Registry(page, a, b) == [page |-> page, a |-> a, b |-> b]

\* strapi.components: "gone" is named by schemas but not registered
Registered == {"a", "b"}

Registries ==
  { \* scalars only
    Registry(<<Leaf("title", "string")>>, <<>>, <<>>),
    \* media and relation next to components that are not registered
    Registry(<<Leaf("cover", "media"), Leaf("author", "relation"), Comp("seo", "gone"),
               Zone("empty", <<>>)>>, <<>>, <<>>),
    \* a chain that ends in a component without anything to populate
    Registry(<<Comp("body", "a")>>, <<Comp("x", "b"), Leaf("img", "media")>>,
             <<Leaf("text", "string")>>),
    \* a component that embeds itself
    Registry(<<Comp("body", "a")>>, <<Leaf("img", "media"), Comp("child", "a")>>, <<>>),
    \* two components that embed each other
    Registry(<<Comp("body", "a")>>, <<Comp("x", "b")>>,
             <<Comp("y", "a"), Leaf("ref", "relation")>>),
    \* a dynamic zone whose component holds a dynamic zone of itself
    Registry(<<Zone("blocks", <<"a", "gone", "b">>)>>, <<Zone("inner", <<"a">>)>>,
             <<Leaf("text", "string")>>),
    \* a component that embeds itself twice
    Registry(<<Comp("l", "a"), Comp("r", "a")>>, <<Comp("l", "a"), Comp("r", "a")>>, <<>>) }

\* the values a plan is made of
Star == [t |-> "*"]

True == [t |-> "true"]

NoReturn == [t |-> "none"]

Populate(v) == [t |-> "populate", populate |-> v]

On(on) == [t |-> "on", on |-> on]

PlanObject(populate) == [t |-> "object", keys |-> populate]

\* `deep === true ? '*' : deep`, lines 258 and 273
Deep(v) == IF v = True THEN Star ELSE v

\* a call getPopulateFromSchema(uid, schema, strapi, depth) at its entry
Frame(uid, depth) ==
  [uid |-> uid, depth |-> depth, i |-> 0, j |-> 1, populate |-> NoMap, on |-> NoMap]

Top == pl.stack[Len(pl.stack)]

Attrs(f) == pl.registry[f.uid]

\* the caller takes the value v returned by the call it made for its attribute
\* i (component, lines 256-259) or for component j of its dynamic zone (271-274)
Resumed(f, v) ==
  LET a == Attrs(f)[f.i] IN
  IF a.type = "component"
  THEN [f EXCEPT !.populate = Put(@, a.key, Populate(Deep(v))), !.i = @ + 1]
  ELSE [f EXCEPT !.on = Put(@, a.components[f.j], Populate(Deep(v))), !.j = @ + 1]

\* the top frame returns v
Return(v) ==
  LET rest == SubSeq(pl.stack, 1, Len(pl.stack) - 1) IN
  IF rest = <<>>
  THEN /\ pl' = [pl EXCEPT !.stack = <<>>, !.ret = v]
       /\ pc' = "planned"
  ELSE /\ pl' = [pl EXCEPT !.stack = [rest EXCEPT ![Len(rest)] = Resumed(@, v)],
                           !.ret = v]
       /\ pc' = pc

\* the recursive call passes depth on unchanged
CallSameDepth(uid) ==
  IF Len(pl.stack) >= MaxStack
  THEN pl' = pl /\ pc' = "overflow"
  ELSE /\ pl' = [pl EXCEPT !.stack = Append(@, Frame(uid, Top.depth))]
       /\ pc' = pc

\* a recursive call with depth - 1
Call(uid) ==
  IF Len(pl.stack) >= MaxStack
  THEN pl' = pl /\ pc' = "overflow"
  ELSE /\ pl' = [pl EXCEPT !.stack = Append(@, Frame(uid, Top.depth - 1))]
       /\ pc' = pc

Continue(f) ==
  /\ pl' = [pl EXCEPT !.stack[Len(pl.stack)] = f]
  /\ pc' = pc

PlanFrame ==
  UNCHANGED <<walk, nz, manifest, archive, opts, faults, db, fsys, mediaIdMap, ti, ii, local,
              ops, run, exitCode, pre, xfs>>

\* lines 244-249: the depth check at entry
PopulateEnter ==
  /\ pc = "populate"
  /\ Top.i = 0
  /\ IF Top.depth <= 0 THEN Return(Star) ELSE Continue([Top EXCEPT !.i = 1])
  /\ PlanFrame

\* lines 251-285: one attribute, or one component of a dynamic zone
PopulateAttribute ==
  /\ pc = "populate"
  /\ Top.i >= 1
  /\ Top.i <= Len(Attrs(Top))
  /\ LET f == Top
         a == Attrs(f)[f.i]
     IN IF a.type = "component"
        THEN IF a.component \in Registered
             THEN Call(a.component)
             ELSE Continue([f EXCEPT !.populate = Put(@, a.key, Populate(Star)),
                                     !.i = @ + 1])
        ELSE IF a.type = "dynamiczone"
        THEN IF a.components = <<>>
             THEN Continue([f EXCEPT !.populate = Put(@, a.key, Populate(Star)),
                                     !.i = @ + 1])
             ELSE IF f.j > Len(a.components)
             THEN Continue([f EXCEPT !.populate = Put(@, a.key, On(f.on)),
                                     !.i = @ + 1, !.j = 1, !.on = NoMap])
             ELSE IF a.components[f.j] \in Registered
             THEN Call(a.components[f.j])
             ELSE Continue([f EXCEPT !.j = @ + 1])
        ELSE IF a.type \in {"media", "relation"}
        THEN Continue([f EXCEPT !.populate = Put(@, a.key, True), !.i = @ + 1])
        ELSE Continue([f EXCEPT !.i = @ + 1])
  /\ PlanFrame

\* lines 288-292: true when nothing is to populate, else the object
PopulateReturn ==
  /\ pc = "populate"
  /\ Top.i > Len(Attrs(Top))
  /\ Return(IF DOMAIN Top.populate = {} THEN True ELSE PlanObject(Top.populate))
  /\ PlanFrame

NextPopulate == PopulateEnter \/ PopulateAttribute \/ PopulateReturn

\* the depths a caller may pass; runExport passes none (line 447)
InitPopulate ==
  \E reg \in Registries, depth \in 0..DefaultDepth :
    /\ pl = [registry |-> reg, max |-> depth, stack |-> <<Frame("page", depth)>>,
             ret |-> NoReturn]
    /\ walk = NoWalk
    /\ nz = NoPayload
    /\ manifest = [types |-> <<>>, media |-> <<>>, locales |-> <<>>, views |-> <<>>]
    /\ archive = ArchiveOf(manifest, FALSE)
    /\ opts = [clean |-> FALSE, skipSchema |-> FALSE, skipMedia |-> FALSE, dryRun |-> FALSE]
    /\ faults = {}
    /\ db = DestEmpty
    /\ fsys = FsOf(DestEmpty, FALSE)
    /\ mediaIdMap = NoMap
    /\ pc = "populate"
    /\ ti = 1
    /\ ii = 1
    /\ local = ""
    /\ ops = <<>>
    /\ run = 1
    /\ exitCode = -1
    /\ pre = [db |-> DestEmpty, fsys |-> FsOf(DestEmpty, FALSE), xfs |-> NoExport]
    /\ xfs = NoExport

\* the call runs to its end: the recursion is synchronous, nothing preempts it
SpecPopulate == InitPopulate /\ [][NextPopulate]_vars /\ WF_vars(NextPopulate)

(***************************************************************************)
(* What the export and the import take for a media object.  An exported    *)
(* entry is walked twice: by findMedia when the manifest is written        *)
(* (README 166-193) and by replaceMediaIds when the entry is imported      *)
(* (part_004 153-158).  walk.data lists the objects of the entry that      *)
(* carry any of the keys id, hash, ext, mime, url, in the order both walks *)
(* meet them; 0 and "" are the values JavaScript takes for false.          *)
(***************************************************************************)
MaxObjects == 2      \* objects of the entry that carry one of the keys

Shapes ==
  [id : {0, 1, 2}, hash : {"", "h1"}, ext : {"", ".png"}, mime : {"", "image/png"},
   url : {"", "/uploads/a.png"}]

\* README 174-180: data.id && data.hash && data.ext && data.mime && data.url
Listable(o) == o.id # 0 /\ o.hash # "" /\ o.ext # "" /\ o.mime # "" /\ o.url # ""

\* part_004 128-130: obj.mime && obj.url && obj.hash
isMediaObject(o) == o.mime # "" /\ o.url # "" /\ o.hash # ""

\* README 166-193, one object: recorded under its id unless the id is recorded
FindMediaStep ==
  /\ pc = "findMedia"
  /\ IF ii > Len(walk.data)
     THEN /\ pc' = "replaceMediaIds"
          /\ ii' = 1
          /\ walk' = walk
     ELSE LET o == walk.data[ii] IN
          /\ walk' = IF Listable(o) /\ \A k \in DOMAIN walk.listed : walk.listed[k].id # o.id
                     THEN [walk EXCEPT !.listed = Append(@, o)]
                     ELSE walk
          /\ ii' = ii + 1
          /\ pc' = pc
  /\ UNCHANGED <<pl, nz, manifest, archive, opts, faults, db, fsys, mediaIdMap, ti, local,
                 ops, run, exitCode, pre, xfs>>

\* part_004 153-158, one object: isMediaObject(data) && data.id
ReplaceMediaIdsStep ==
  /\ pc = "replaceMediaIds"
  /\ IF ii > Len(walk.data)
     THEN /\ pc' = "walked"
          /\ UNCHANGED <<ii, walk>>
     ELSE LET o == walk.data[ii] IN
          /\ walk' = IF isMediaObject(o) /\ o.id # 0
                     THEN [walk EXCEPT !.treated = @ \cup {ii}]
                     ELSE walk
          /\ ii' = ii + 1
          /\ pc' = pc
  /\ UNCHANGED <<pl, nz, manifest, archive, opts, faults, db, fsys, mediaIdMap, ti, local,
                 ops, run, exitCode, pre, xfs>>

NextWalk == FindMediaStep \/ ReplaceMediaIdsStep

InitWalk ==
  \E data \in UNION {[1..n -> Shapes] : n \in 1..MaxObjects} :
    /\ walk = [data |-> data, listed |-> <<>>, treated |-> {}]
    /\ pl = NoPlan
    /\ nz = NoPayload
    /\ manifest = [types |-> <<>>, media |-> <<>>, locales |-> <<>>, views |-> <<>>]
    /\ archive = ArchiveOf(manifest, FALSE)
    /\ opts = [clean |-> FALSE, skipSchema |-> FALSE, skipMedia |-> FALSE, dryRun |-> FALSE]
    /\ faults = {}
    /\ db = DestEmpty
    /\ fsys = FsOf(DestEmpty, FALSE)
    /\ mediaIdMap = NoMap
    /\ pc = "findMedia"
    /\ ti = 1
    /\ ii = 1
    /\ local = ""
    /\ ops = <<>>
    /\ run = 1
    /\ exitCode = -1
    /\ pre = [db |-> DestEmpty, fsys |-> FsOf(DestEmpty, FALSE), xfs |-> NoExport]
    /\ xfs = NoExport

SpecWalk == InitWalk /\ [][NextWalk]_vars

Init ==
  \/ InitWalk
  \/ InitWith({m \in Manifests : m.types[1].uid = "post" /\ m.types[2].uid = "tag"},
              Options, {DestEmpty, DestOverlap}, NoFaults, {FALSE})
  \/ InitExport
  \/ InitNormalize
  \/ InitPopulate

Next ==
  \/ ImportStep
  \/ CleanStep
  \/ Rerun
  \/ ExportStep
  \/ NextNormalize
  \/ NextPopulate
  \/ NextWalk

Spec == Init /\ [][Next]_vars

(***************************************************************************)
(* Properties.                                                             *)
(***************************************************************************)
Completed == pc = "done" /\ exitCode = 0

Terminated == pc \in {"done", "crashed"}

\* the destination rows an imported manifest entry corresponds to: for a
\* collection type the row of its documentId and locale, for a single type the
\* rows of its locale
RowsFor(e) ==
  {r \in db.entries : /\ r.uid = e.uid
                      /\ r.locale = e.locale
                      /\ (Kind(e.uid) = "collectionType" => r.documentId = e.documentId)}

OpsOf(names) == {i \in DOMAIN ops : ops[i].op \in names}

\* C1 (idempotent re-import): after the second of two runs with the same
\* manifest no two entries of a type share (documentId, locale), no two assets
\* share a hash, and the second run updated every manifest entry and created
\* no entry and no asset.
C1_IdempotentReimport ==
  (run = 2 /\ Completed) =>
    /\ \A r, q \in db.entries :
         (r.uid = q.uid /\ r.documentId = q.documentId /\ r.locale = q.locale) => r = q
    /\ \A f, g \in db.files : f.hash = g.hash => f = g
    /\ OpsOf({"create", "createFile"}) = {}
    /\ \A e \in ManifestEntries(manifest) :
         \E i \in OpsOf({"update"}) :
           ops[i].uid = e.uid /\ ops[i].loc = e.locale /\ ops[i].ok
             /\ (Kind(e.uid) = "collectionType" => ops[i].doc = e.documentId)

\* two manifest entries that reference each other
Cyclic(a, b) ==
  /\ a # b
  /\ Ref(b.uid, b.documentId) \in a.rel
  /\ Ref(a.uid, a.documentId) \in b.rel

\* the rows of the destination document of e, in any locale
DocRowsFor(e) ==
  {r \in db.entries : /\ r.uid = e.uid
                      /\ (Kind(e.uid) = "collectionType" => r.documentId = e.documentId)}

\* the stored relation of the row of a points to a row of the document of b
PointsTo(a, b) ==
  \E r \in RowsFor(a) : \E x \in r.data.rel :
    x.target = b.uid /\ x.id \in {q.id : q \in DocRowsFor(b)}

\* C2 (cycle safety): two manifest entries that reference each other, of the
\* same or of different content types, in any manifest order, are both created
\* and each one's relation points to the destination entry of the other.
C2_CycleSafety ==
  Completed =>
    \A a, b \in ManifestEntries(manifest) :
      Cyclic(a, b) => (RowsFor(a) # {} /\ RowsFor(b) # {} /\ PointsTo(a, b))

\* media fields of the rows of e, as stored
StoredMedia(e) ==
  UNION {{r.data.cover} \cup Range(r.data.gallery) : r \in RowsFor(e)} \ {MNull}

\* C3 (media dedup): when two different manifest entries reference media of one
\* content hash, the import ends with exactly one asset of that hash and the
\* media fields of both imported entries hold its identifier.
C3_MediaDedup ==
  Completed =>
    \A a, b \in ManifestEntries(manifest) :
      \A m \in Range(MediaRefs(a)), n \in Range(MediaRefs(b)) :
        (a # b /\ HashOf(m) = HashOf(n)) =>
          \E f \in db.files :
            /\ f.hash = HashOf(m)
            /\ \A g \in db.files : g.hash = f.hash => g = f
            /\ MId(f.id) \in StoredMedia(a)
            /\ MId(f.id) \in StoredMedia(b)

C3_Witness ==
  /\ Completed
  /\ pre.db.files = {}
  /\ \E a, b \in ManifestEntries(manifest) :
       /\ a # b
       /\ a.cover # 0 /\ b.cover # 0 /\ a.cover # b.cover
       /\ HashOf(a.cover) = HashOf(b.cover)
       /\ \E f \in db.files : RowsFor(a) # {} /\ StoredMedia(a) = {MId(f.id)}
                              /\ StoredMedia(b) = {MId(f.id)}

\* a destination row that carries what the manifest record carries
SameFields(r, e) ==
  /\ r.uid = e.uid
  /\ r.locale = e.locale
  /\ r.published = e.publishedAt
  /\ r.data.title = e.title
  /\ r.data.seo = e.seo

\* C4 (round-trip identity): into an empty destination, every manifest
\* entry of every kind yields a destination entry with the same documentId,
\* locale, publish state and scalar / embedded-fragment values.
C4_RoundTrip ==
  (Completed /\ run = 1 /\ pre.db = DestEmpty) =>
    \A e \in ManifestEntries(manifest) :
      \E r \in db.entries : SameFields(r, e) /\ r.documentId = e.documentId

\* what does hold of the round trip: every manifest entry yields a destination
\* entry with the same locale, publish state and scalar / embedded-fragment
\* values; a collection entry keeps its documentId, the entries of a single type
\* share one documentId assigned by the destination.
RoundTripUpToSingleId ==
  (Completed /\ run = 1 /\ pre.db = DestEmpty) =>
    /\ \A e \in ManifestEntries(manifest) :
         \E r \in db.entries :
           /\ SameFields(r, e)
           /\ Kind(e.uid) = "collectionType" => r.documentId = e.documentId
           /\ Kind(e.uid) = "singleType" => r.documentId \in Range(GenDocs)
    /\ \A r, q \in db.entries :
         (r.uid = q.uid /\ Kind(r.uid) = "singleType") => r.documentId = q.documentId

ManifestDocs(uid) ==
  {e.documentId : e \in {x \in ManifestEntries(manifest) : x.uid = uid}}

\* C5 (scoped cleanup): for every collection type a --clean run deletes only
\* entries whose documentId is in the manifest's list for the type; every other
\* entry is unchanged, and every delete issued names one such documentId.
C5_ScopedCleanup ==
  /\ \A r \in pre.db.entries :
       (Kind(r.uid) = "collectionType" /\ r.documentId \notin ManifestDocs(r.uid))
         => r \in db.entries
  /\ \A i \in OpsOf({"delete"}) :
       Kind(ops[i].uid) = "collectionType" => ops[i].doc \in ManifestDocs(ops[i].uid)

C5_Witness ==
  /\ Completed
  /\ \E r \in pre.db.entries \ db.entries :
       /\ Kind(r.uid) = "collectionType"
       /\ \E q \in db.entries : q.uid = r.uid /\ q.documentId \notin ManifestDocs(r.uid)

ManifestHashes == {HashOf(m) : m \in Range(manifest.media)}

\* C6 (media cleanup scoped by hash): a --clean run removes an asset only if
\* its hash is the hash of a media item of the manifest; every other asset keeps
\* its record and its bytes.
C6_MediaCleanupByHash ==
  \A f \in pre.db.files :
    f.hash \notin ManifestHashes => (f \in db.files /\ f.hash \in fsys.uploads)

C6_Witness ==
  /\ Completed
  /\ \E f \in pre.db.files \ db.files : f.hash \notin fsys.uploads
  /\ \E g \in db.files : g.hash \notin ManifestHashes

\* C7 (dry-run no-op, import): an import with --dry-run ends with the entries,
\* the media assets and the file system (src/, public/uploads, the directory
\* holding the archive) as they were before the invocation.
C7_DryRunNoOp ==
  (Terminated /\ opts.dryRun) =>
    /\ db.entries = pre.db.entries
    /\ db.files = pre.db.files
    /\ fsys = pre.fsys

\* C8 (dry-run is read-only): with --dry-run no phase issues a create, update,
\* delete or publish against the destination store.
C8_DryRunReadOnly == opts.dryRun => ops = <<>>

\* C9 (export dry-run): export --dry-run creates no file or directory, the
\* export-data/ directory included, and produces no archive.
C9_ExportDryRunNoFiles ==
  (Terminated /\ opts.dryRun) => xfs = pre.xfs

\* C10 (per-item failures never abort): whatever single item operation the
\* environment rejects, the run goes on and terminates with exit code 0.
C10_ItemFailuresDoNotAbort ==
  /\ pc # "crashed"
  /\ pc = "done" => exitCode = 0

\* the setup of the run failed
SetupError ==
  \/ ~archive.exists
  \/ ~archive.extracts
  \/ ~archive.hasData
  \/ ~archive.parses
  \/ Rejects("load", "", "", "")

\* C11 (setup errors abort before any mutation): when the input path is
\* missing, the archive does not extract, data.json is missing or corrupt, or
\* the store cannot be loaded, the run ends with exit code 1 and the store, the
\* project's src/api and src/components and public/uploads are as before.
C11_SetupErrorsAbortFirst ==
  (Terminated /\ SetupError) =>
    /\ exitCode = 1
    /\ db = pre.db
    /\ fsys.schema = pre.fsys.schema
    /\ fsys.uploads = pre.fsys.uploads

\* the store calls of a collection type that name the manifest entry e
OpsFor(e, names) ==
  {i \in OpsOf(names) :
     ops[i].uid = e.uid /\ ops[i].doc = e.documentId /\ ops[i].loc = e.locale}

CollectionEntries ==
  {e \in ManifestEntries(manifest) : Kind(e.uid) = "collectionType"}

\* both passes over the collection types are over
LinkingDone == pc \in {"single", "finish"} \/ Completed

\* every publish call of a collection type is for a manifest entry of a type with
\* draft & publish that carries publishedAt, and the call before it is the
\* successful update of the same entry
PublishesFollowUpdates ==
  \A k \in OpsOf({"publish"}) :
    Kind(ops[k].uid) = "collectionType" =>
      /\ DraftAndPublish(ops[k].uid)
      /\ \E e \in CollectionEntries : k \in OpsFor(e, {"publish"}) /\ e.publishedAt
      /\ k > 1
      /\ ops[k - 1] = Op("update", ops[k].uid, ops[k].doc, ops[k].loc, TRUE)

\* once Phase 2 is over, an entry that carries publishedAt and whose last update
\* succeeded has its publish call, unless its type has no draft & publish
PublishedWhenDue ==
  LinkingDone =>
    \A e \in CollectionEntries :
      LET us == OpsFor(e, {"update"}) IN
      (/\ DraftAndPublish(e.uid) /\ e.publishedAt
       /\ us # {} /\ ops[CHOOSE i \in us : \A j \in us : j <= i].ok)
        => OpsFor(e, {"publish"}) # {}

\* a step that issues a publish call of a collection type is a step of Phase 2
\* that issued the update in the same pass over the item
PublishInPhase2 ==
  (/\ Len(ops') > Len(ops)
   /\ ops'[Len(ops')].op = "publish"
   /\ Kind(ops'[Len(ops')].uid) = "collectionType")
    => (pc = "phase2" /\ Len(ops') >= Len(ops) + 2)

\* C12 (publish rule): in Phase 2 a publish call for (documentId, locale) of a
\* collection type with draft & publish is issued if and only if the manifest
\* record carries publishedAt, and only after the Phase 2 update of the same
\* (documentId, locale) has succeeded; a type without draft & publish gets no
\* publish call.
C12_PublishRule ==
  /\ [](PublishesFollowUpdates /\ PublishedWhenDue)
  /\ [][PublishInPhase2]_vars

C12_Witness ==
  /\ LinkingDone
  /\ \E e \in CollectionEntries :
       /\ OpsFor(e, {"publish"}) # {}
       /\ \E i \in OpsFor(e, {"update"}) : ops[i].ok /\ (i + 1) \in OpsFor(e, {"publish"})
  /\ \E e \in CollectionEntries :
       ~DraftAndPublish(e.uid) /\ e.publishedAt /\ OpsFor(e, {"update"}) # {}
  /\ \E e \in CollectionEntries :
       DraftAndPublish(e.uid) /\ ~e.publishedAt /\ OpsFor(e, {"update"}) # {}

\* the rows a cleanup addresses: the collection entries the manifest lists by
\* documentId, in the locale a call without locale reaches
MatchingRows(d) ==
  {r \in d.entries : /\ Kind(r.uid) = "collectionType"
                     /\ r.documentId \in ManifestDocs(r.uid)
                     /\ r.locale = DefaultLocale}

\* C13 (--clean --skip-schema): the destination entries matching the manifest
\* are deleted, the schema files under src/api and src/components are kept.
C13_CleanSkipSchemaDeletesContent ==
  (Completed /\ opts.clean /\ opts.skipSchema) =>
    /\ MatchingRows(pre.db) \cap db.entries = {}
    /\ fsys.schema = pre.fsys.schema

\* C14 (--skip-media on an import): no file is created or overwritten under
\* public/uploads, while media records are still created or linked and the
\* entries are still imported.
C14_SkipMediaKeepsUploads ==
  (opts.skipMedia /\ ~opts.clean) =>
    /\ fsys.uploads = pre.fsys.uploads
    /\ Completed =>
         /\ \A m \in Range(manifest.media) : FindFileByHash(db, HashOf(m)) # 0
         /\ \A e \in ManifestEntries(manifest) : RowsFor(e) # {}

C16_SkipSchemaKeepsSources ==
  opts.skipSchema => fsys.schema = pre.fsys.schema

C16_Witness ==
  /\ Completed
  /\ opts.skipSchema
  /\ ~opts.clean
  /\ \E x \in fsys.schema : x.name \in archive.schema
  /\ \E n \in archive.schema : \A x \in fsys.schema : x.name # n
  /\ OpsOf({"create"}) # {}

\* the collection entries of the manifest, types in key order, items in list
\* order
CollectionSeq ==
  Flatten([i \in DOMAIN manifest.types |->
             IF Kind(manifest.types[i].uid) = "collectionType"
             THEN manifest.types[i].items ELSE <<>>])

\* the create and update calls issued for collection entries, in order
EntryOps ==
  SelectSeq(ops, LAMBDA o : o.op \in {"create", "update"} /\ Kind(o.uid) = "collectionType")

Names(o, e) == o.uid = e.uid /\ o.doc = e.documentId /\ o.loc = e.locale

\* C17 (phase ordering): within one run the create-or-update of Phase 1 is
\* attempted for every collection entry of every type, in manifest order,
\* before the first Phase 2 update is issued, and the Phase 2 updates follow in
\* manifest order as well.
C17_PhaseOrdering ==
  LET n == Len(CollectionSeq) IN
  /\ Len(EntryOps) <= 2 * n
  /\ \A k \in DOMAIN EntryOps :
       /\ k <= n => Names(EntryOps[k], CollectionSeq[k])
       /\ k > n  => Names(EntryOps[k], CollectionSeq[k - n]) /\ EntryOps[k].op = "update"
  /\ pc = "phase1" => Len(EntryOps) <= n
  /\ (pc \in {"phase2", "single", "finish"} \/ Completed) => Len(EntryOps) >= n

C17_Witness ==
  /\ pc = "phase2"
  /\ Len(CollectionSeq) = MaxEntries
  /\ Len(EntryOps) = Len(CollectionSeq) + 1
  /\ \E i \in DOMAIN manifest.types : manifest.types[i].uid = "tag" /\ i = 2
  /\ \E k \in DOMAIN EntryOps : ~EntryOps[k].ok

\* the destination rows a reference to (target, documentId) stands for
TargetRows(x) ==
  {q \in db.entries : /\ q.uid = x.target
                      /\ (Kind(x.target) = "collectionType" => q.documentId = x.doc)}

\* the references of a manifest entry whose target is an entry of the manifest
ManifestRefs(a) == {x \in a.rel : x.doc \in ManifestDocs(x.target)}

\* C18 (Phase 2 resolves against a populated destination): when Phase 2 runs,
\* every entry of the manifest can be looked up in the destination by its
\* documentId, so every relation of a collection entry to an entry of the
\* manifest, whatever the target's kind, is stored with a destination
\* identifier and none is dropped.
C18_ManifestRelationsResolved ==
  /\ pc = "phase2" =>
       \A e \in ManifestEntries(manifest) :
         FindOneByDocumentId(db, e.uid, e.documentId) # 0
  /\ Completed =>
       \A a \in CollectionEntries : \A x \in ManifestRefs(a) :
         \E r \in RowsFor(a) : \E y \in r.data.rel :
           y.target = x.target /\ y.id \in {q.id : q \in TargetRows(x)}

RECURSIVE HasRelation(_)
\* some object of the payload, at any depth, carries a relation attribute
HasRelation(v) ==
  IF v.t = "arr" THEN \E i \in DOMAIN v.items : HasRelation(v.items[i])
  ELSE IF v.t = "obj"
  THEN \/ v.link # Absent
       \/ v.links # Absent
       \/ HasRelation(v.child)
       \/ HasRelation(v.list)
       \/ HasRelation(v.zone)
  ELSE FALSE

\* C19 (relations-stripped mode): the payload of Phase 1 contains no relation
\* attribute at any nesting depth: those of the entry, of its components, of
\* repeatable components and of every element of a dynamic zone are omitted.
C19_StrippedHasNoRelation ==
  pc \in {"pass2", "normalized"} => ~HasRelation(nz.stripped)

\* the references of a relation value before resolution
RefsOf(v) == IF v.t = "arr" THEN Range(v.items) ELSE {v}

\* n is the identifier of a destination entry of the target type that is the
\* entry one of the references names
NamesTarget(target, refs, n) ==
  \E r \in db.entries :
    /\ r.uid = target
    /\ r.id = n
    /\ \E x \in refs : \/ x.t = "ref" /\ x.documentId = r.documentId
                       \/ x.t = "str" /\ x.v = r.documentId
                       \/ x = Num(n)

\* a relation attribute after resolution: omitted, or identifiers of the
\* entries its references name
ValidRelation(target, in, out) ==
  \/ out = Absent
  \/ out.t = "num" /\ NamesTarget(target, RefsOf(in), out.v)
  \/ /\ out.t = "arr"
     /\ \A i \in DOMAIN out.items :
          out.items[i].t = "num" /\ NamesTarget(target, RefsOf(in), out.items[i].v)

RECURSIVE RelationsValid(_, _)
RelationsValid(in, out) ==
  IF out.t = "arr"
  THEN \A i \in DOMAIN out.items : RelationsValid(in.items[i], out.items[i])
  ELSE IF out.t = "obj"
  THEN /\ ValidRelation(RelationTarget("link"), in.link, out.link)
       /\ ValidRelation(RelationTarget("links"), in.links, out.links)
       /\ RelationsValid(in.child, out.child)
       /\ RelationsValid(in.list, out.list)
       /\ RelationsValid(in.zone, out.zone)
  ELSE TRUE

\* C20 (relations-resolved mode): every relation value written is the
\* destination identifier of an entry that exists in the relation's target type
\* and has the referenced documentId, whether the reference is an embedded
\* object or a bare identifier; a reference that does not resolve is removed.
C20_ResolvedRelationsValid ==
  pc = "normalized" => RelationsValid(nz.data, nz.resolved)

(***************************************************************************)
(* Media resolution.                                                       *)
(***************************************************************************)
\* the item the next step of Phase 1, Phase 2 or the single type pass handles
Pending ==
  IF /\ pc \in {"phase1", "phase2", "single"}
     /\ ti <= NTypes
     /\ ~opts.dryRun
     /\ (pc = "single") = (Kind(Uid(ti)) = "singleType")
     /\ ii >= 1
     /\ ii <= Len(Items(ti))
  THEN {Items(ti)[ii]} ELSE {}

\* the order of the three steps: the map, then the asset with the same hash, then
\* a new asset
InPrecedence(m, r) ==
  IF m \in DOMAIN mediaIdMap
  THEN r.val = MId(mediaIdMap[m]) /\ r.st.db = db
  ELSE IF \E f \in db.files : f.hash = HashOf(m)
  THEN /\ \E f \in db.files : f.hash = HashOf(m) /\ r.val = MId(f.id)
       /\ r.st.db = db
  ELSE r.val.k = "id" =>
         /\ r.val.v \notin {f.id : f \in db.files}
         /\ [id |-> r.val.v, hash |-> HashOf(m)] \in r.st.db.files

\* a destination id of an existing asset, or null
IdOrNull(r) == r.val = MNull \/ \E f \in r.st.db.files : r.val = MId(f.id)

\* C21: whatever media reference of the item at hand is resolved, the three steps
\* apply in their order (map, same hash in the destination, copy and create) and
\* the result is the id of an asset the destination holds, or null.
C21_ResolverResult ==
  \A e \in Pending : \A i \in DOMAIN MediaRefs(e) :
    LET r == replaceMediaIds(Now, MediaRefs(e)[i]) IN
      ~r.st.thrown => InPrecedence(MediaRefs(e)[i], r) /\ IdOrNull(r)

\* the payload the next step writes for the item at hand
PendingPayload(e, mc) == simplifyPayload(mc.st.db, e, mc, pc = "phase1")

\* C22: when a media reference of the item at hand does not resolve to a
\* destination id, the payload written for the item does not carry the media
\* field (for the gallery: does not carry the element); it carries no null and no
\* source media object in its place.
C22_UnresolvedMediaOmitted ==
  \A e \in Pending : \A overlap \in BOOLEAN :
    LET mc == MediaCleaned(Now, e, overlap)
        w  == PendingPayload(e, mc)
    IN ~mc.st.thrown =>
         /\ (e.cover # 0 /\ mc.cover.k # "id") => ~w.hasCover
         /\ \A i \in DOMAIN w.gallery : w.gallery[i].k = "id"

(***************************************************************************)
(* Concurrent resolution of the elements of one array.                     *)
(***************************************************************************)
\* the array of the item at hand resolved as replaceMediaIds resolves it, after
\* the keys that precede it
GalleryResolved(e, overlap) ==
  LET c == IF e.cover = 0 THEN [st |-> Now, val |-> MNull] ELSE replaceMediaIds(Now, e.cover)
  IN [before |-> c.st, after |-> ResolveArray(c.st, c.st, e.gallery, overlap)]

\* the assets with the hash of m the resolution of the array has created
CreatedFor(g, m) ==
  {f \in g.after.st.db.files \ g.before.db.files : f.hash = HashOf(m)}

\* the map holds for m what the first element that resolved to an id got
FirstWins(e, g, m) ==
  LET got == {i \in DOMAIN e.gallery : e.gallery[i] = m /\ g.after.vals[i].k = "id"}
  IN got # {} => g.after.st.map[m] = g.after.vals[Min(got)].v

\* the references of one array to an asset that is not mapped when the array is met
Raced(e, g) ==
  {m \in Range(e.gallery) :
     /\ m \notin DOMAIN g.before.map
     /\ Cardinality({i \in DOMAIN e.gallery : e.gallery[i] = m}) > 1}

\* C23: when the elements of one array refer several times to an asset that is
\* not mapped yet, the identifier map keeps the id the first resolution obtained
\* and the resolution creates at most two assets for it, the needed one and one
\* extra.
C23_BenignRace ==
  \A e \in Pending : \A overlap \in BOOLEAN :
    LET g == GalleryResolved(e, overlap) IN
      ~g.after.st.thrown =>
        \A m \in Raced(e, g) :
          FirstWins(e, g, m) /\ Cardinality(CreatedFor(g, m)) <= 2

(***************************************************************************)
(* Phase 1 outcomes.                                                       *)
(***************************************************************************)
\* the create, update and publish calls made for the manifest entry e
CallsFor(e) == OpsFor(e, {"create", "update", "publish"})

\* the Phase 1 call of e (the first call made for it) was rejected
FailedInPhase1(e) == CallsFor(e) # {} /\ ~ops[Min(CallsFor(e))].ok

\* an entry whose Phase 1 call failed gets no other call
FailureIsTerminal ==
  \A e \in CollectionEntries : FailedInPhase1(e) => Cardinality(CallsFor(e)) = 1

\* the entries whose Phase 1 call succeeded get their Phase 2 update
OthersContinue ==
  LinkingDone =>
    \A e \in CollectionEntries :
      ~FailedInPhase1(e) => Cardinality(OpsFor(e, {"create", "update"})) = 2

\* C24: once the Phase 1 create or update of a collection entry has failed, the
\* run makes no later update or publish call for its (documentId, locale); every
\* other entry gets its Phase 1 call and its Phase 2 update.
C24_FailureIsTerminal == FailureIsTerminal /\ OthersContinue

\* the rows of the destination for the (documentId, locale) of e
Existing(e) == RowsOf(db, e.uid, e.documentId, e.locale)

\* the Phase 1 step for e: one update call for e is logged and no row is added;
\* unless the call is rejected the draft copy of the row takes the data of e; the
\* published copy of the row stays as it was
UpdatedAsDraft(e) ==
  /\ Len(ops') >= 1
  /\ \E ok \in BOOLEAN : ops'[Len(ops')] = Op("update", e.uid, e.documentId, e.locale, ok)
  /\ {r.id : r \in db'.entries} = {r.id : r \in db.entries}
  /\ \A r \in Existing(e) : \E q \in db'.entries :
        /\ q.id = r.id
        /\ ops'[Len(ops')].ok => q.data.title = e.title
        /\ q.live = r.live
        /\ q.published = r.published

\* a step of Phase 1 on an item whose (documentId, locale) the destination holds
Phase1OnExisting(e) ==
  pc = "phase1" /\ e \in Pending /\ Existing(e) # {} /\ ops' # ops

\* C25 as stated: in Phase 1 an entry that exists in the destination for the
\* (documentId, locale) of a manifest entry is updated in place in draft state,
\* and its published state is not written, whatever its content type.
C25_ExistingUpdatedAsDraft ==
  [][\A e \in Pending : Phase1OnExisting(e) => UpdatedAsDraft(e)]_vars

\* C25 amended: the same for the content types that have draft & publish.
C25_ExistingUpdatedAsDraftWhenTracked ==
  [][\A e \in Pending :
       (Phase1OnExisting(e) /\ DraftAndPublish(e.uid)) => UpdatedAsDraft(e)]_vars

\* Phase 1 has just updated a published entry: its draft copy carries the data of
\* the manifest, its published copy the data it had
C25_Witness ==
  /\ pc = "phase1"
  /\ ops # <<>>
  /\ \E e \in CollectionEntries :
       /\ DraftAndPublish(e.uid)
       /\ ops[Len(ops)] = Op("update", e.uid, e.documentId, e.locale, TRUE)
       /\ \E r \in Existing(e) :
            r.published /\ r.data.title = e.title /\ r.live.title # e.title

\* the Phase 1 step for e: one create call for e is logged; unless it is rejected,
\* exactly one row is added, with the documentId and the locale of e and its data,
\* as a draft when the type has draft & publish and published otherwise
CreatedOnce(e) ==
  LET new == db'.entries \ db.entries IN
  /\ Len(ops') >= 1
  /\ \E ok \in BOOLEAN : ops'[Len(ops')] = Op("create", e.uid, e.documentId, e.locale, ok)
  /\ db.entries \subseteq db'.entries
  /\ IF ops'[Len(ops')].ok
     THEN /\ Cardinality(new) = 1
          /\ \A r \in new :
               /\ r.uid = e.uid /\ r.documentId = e.documentId /\ r.locale = e.locale
               /\ r.data.title = e.title
               /\ r.published = ~DraftAndPublish(e.uid)
               /\ r.live = IF DraftAndPublish(e.uid) THEN EmptyData ELSE r.data
     ELSE new = {}

\* a step of Phase 1 on an item whose (documentId, locale) the destination lacks
Phase1OnMissing(e) ==
  pc = "phase1" /\ e \in Pending /\ Existing(e) = {} /\ ops' # ops

\* C26: in Phase 1, when the destination has no entry for the (documentId,
\* locale) of a manifest entry, exactly one entry is created, with the documentId
\* of the source and the locale of the entry, as a draft if the content type has
\* draft & publish and published if it has not.
C26_MissingCreatedOnce ==
  [][\A e \in Pending : Phase1OnMissing(e) => CreatedOnce(e)]_vars

\* Phase 1 has created a draft of a type with draft & publish and a published
\* entry of a type without, one of them as another locale of a document the
\* destination held
C26_Witness ==
  /\ pc = "phase2"
  /\ \E e \in CollectionEntries :
       /\ DraftAndPublish(e.uid)
       /\ OpsFor(e, {"create"}) # {}
       /\ \E r \in Existing(e) : ~r.published
       /\ \E r \in db.entries : r.documentId = e.documentId /\ r.locale # e.locale
  /\ \E e \in CollectionEntries :
       /\ ~DraftAndPublish(e.uid)
       /\ OpsFor(e, {"create"}) # {}
       /\ \E r \in Existing(e) : r.published

(***************************************************************************)
(* The single type pass.                                                   *)
(***************************************************************************)
SingleUids == {u \in Uids : Kind(u) = "singleType"}

\* the single type pass of this run is over
SinglesDone == ~opts.dryRun /\ (pc = "finish" \/ Completed)

\* the destination holds at most one document of the type, and one variant of
\* it for every locale of the manifest
OneDocument(u) ==
  /\ Cardinality({r.documentId : r \in {x \in db.entries : x.uid = u}}) <= 1
  /\ \A e \in ManifestEntries(manifest) :
       e.uid = u => Cardinality({r \in db.entries : r.uid = u /\ r.locale = e.locale}) = 1

\* creates are issued only while the type has no document: none when the run
\* found one, at most one successful otherwise
CreatedOnlyWhenAbsent(u) ==
  LET creates == {i \in OpsOf({"create"}) : ops[i].uid = u} IN
  /\ (\E r \in pre.db.entries : r.uid = u) => creates = {}
  /\ Cardinality({i \in creates : ops[i].ok}) <= 1

\* C27: after the single type pass the destination holds at most one document
\* of a single type, with one variant for every locale the manifest has for it,
\* and the pass has issued a create only while the type had no document.
C27_SingleTypeOneDocument ==
  SinglesDone => \A u \in SingleUids : OneDocument(u) /\ CreatedOnlyWhenAbsent(u)

(***************************************************************************)
(* The export.                                                             *)
(***************************************************************************)
\* the items the export has put in the manifest so far
ExportedSoFar ==
  IF xfs = NoExport THEN {}
  ELSE UNION {Range(manifest.types[i].items) : i \in DOMAIN manifest.types}

\* the published version of the (documentId, locale) of x in the source store
PublishedVersion(x) ==
  {r \in db.entries : /\ r.uid = x.uid /\ r.documentId = x.documentId
                      /\ r.locale = x.locale /\ r.published}

\* C28: every exported entry carries the publishedAt of the published row of its
\* own (documentId, locale) if the source has one, and null otherwise; a published
\* row of another locale or of another document does not mark it as published.
C28_ExportMerge ==
  \A x \in ExportedSoFar :
    LET at == MergedPublishedAt(publishedMap(PublishedRows(db, x.uid)), x) IN
    /\ x.publishedAt = (PublishedVersion(x) # {})
    /\ x.publishedAt = (at # 0)
    /\ \A r \in PublishedVersion(x) : at = Stamp(r)

\* an export that holds a published entry next to an unpublished locale of the
\* same document and next to an unpublished entry of another document
C28_Witness ==
  /\ pc = "done"
  /\ \E x, y, z \in ExportedSoFar :
       /\ x.publishedAt
       /\ y.uid = x.uid /\ y.documentId = x.documentId /\ y.locale # x.locale
       /\ ~y.publishedAt
       /\ z.uid = x.uid /\ z.documentId # x.documentId /\ z.locale = x.locale
       /\ ~z.publishedAt

\* C29: every element of the manifest's media list is a media object embedded in
\* at least one exported entry of the manifest, and no two elements of the list
\* have the same source id.
C29_MediaListReferenced ==
  xfs # NoExport =>
    /\ \A i \in DOMAIN manifest.media :
         \E x \in ExportedSoFar : manifest.media[i] \in Range(MediaRefs(x))
    /\ \A i, j \in DOMAIN manifest.media :
         i # j => manifest.media[i] # manifest.media[j]

\* an export whose entries embed one media object more than once and whose
\* source store holds a file no exported entry embeds
C29_Witness ==
  /\ pc = "done"
  /\ ~opts.dryRun
  /\ Len(manifest.media) >= 2
  /\ \E f \in db.files : f.id \notin Range(manifest.media)
  /\ \E x \in ExportedSoFar : \E i, j \in DOMAIN MediaRefs(x) :
       i # j /\ MediaRefs(x)[i] = MediaRefs(x)[j]
  /\ \E x, y \in ExportedSoFar : x # y /\ x.cover # 0 /\ x.cover = y.cover

\* the (documentId, locale) pairs of a set of rows or items
Pairs(S) == {<<x.documentId, x.locale>> : x \in S}

\* rows of a type with draft & publish that have a published version only
PublishedOnly(u) ==
  {r \in db.entries : r.uid = u /\ DraftAndPublish(u) /\ r.published /\ ~r.draft}

\* C30: the entry list the export writes for a content type has exactly one
\* entry for every row the draft query of the source returns, and none for a
\* (documentId, locale) that has a published row but no draft row.
C30_OneEntryPerDraft ==
  xfs # NoExport =>
    \A i \in DOMAIN manifest.types :
      LET u     == manifest.types[i].uid
          items == manifest.types[i].items
      IN /\ Len(items) = Cardinality(Drafts(db, u))
         /\ Pairs(Range(items)) = Pairs(Drafts(db, u))
         /\ \A k \in DOMAIN items : items[k].uid = u
         /\ Pairs(Range(items)) \cap Pairs(PublishedOnly(u)) = {}

\* an export of a type that has a published-only row next to rows with drafts
C30_Witness ==
  /\ pc = "done"
  /\ \E i \in DOMAIN manifest.types :
       /\ PublishedOnly(manifest.types[i].uid) # {}
       /\ manifest.types[i].items # <<>>

(***************************************************************************)
(* The population plan.                                                    *)
(***************************************************************************)
Max(S) == CHOOSE x \in S : \A y \in S : y <= x

RECURSIVE PlanDepth(_)
\* how many plan objects are nested in a returned value
PlanDepth(v) ==
  IF v.t = "object"
  THEN 1 + Max({0} \cup {PlanDepth(v.keys[k]) : k \in DOMAIN v.keys})
  ELSE IF v.t = "populate" THEN PlanDepth(v.populate)
  ELSE IF v.t = "on"
  THEN Max({0} \cup {PlanDepth(v.on[c]) : c \in DOMAIN v.on})
  ELSE 0

\* the outermost call has returned its plan
PlanReturned == pc = "planned"

\* frame i of the stack runs with depth max - (i - 1), never below zero
WithinDepth ==
  pl # NoPlan =>
    \A i \in DOMAIN pl.stack :
      pl.stack[i].depth = pl.max - (i - 1) /\ pl.stack[i].depth >= 0

\* a call entered with no depth left returns the wildcard at once
ExhaustedIsWildcard ==
  (pc = "populate" /\ Top.depth <= 0) =>
    (pl'.ret = Star /\ Len(pl'.stack) = Len(pl.stack) - 1)

\* C31: for every schema registry, also when a component embeds itself or two
\* components embed each other, the construction of the population plan returns;
\* the recursion never descends below the maximum depth, and a call that is
\* reached with the depth exhausted returns the wildcard.
C31_PopulateTerminates ==
  /\ <>PlanReturned
  /\ []WithinDepth
  /\ [][ExhaustedIsWildcard]_vars

\* the plan of a schema whose components embed one another, built with the
\* default depth: it nests as deep as the depth allows
C31_Witness ==
  /\ PlanReturned
  /\ pl.max = DefaultDepth
  /\ PlanDepth(pl.ret) = DefaultDepth

(***************************************************************************)
(* Locale preparation.                                                     *)
(***************************************************************************)
\* the locales of the manifest's list that have a code
CodedLocales == {l \in Range(manifest.locales) : l # ""}

\* an entry has been created or updated in this run
EntryWritten == OpsOf({"create", "update"}) # {}

\* every locale the destination had at the start is created by no call
ExistingNotCreated ==
  \A i \in OpsOf({"createLocale"}) : ops[i].doc \notin pre.db.locales

\* no locale is created twice
CreatedLocaleOnce ==
  \A i, j \in OpsOf({"createLocale"}) :
    (ops[i].doc = ops[j].doc /\ ops[i].ok /\ ops[j].ok) => i = j

\* C32: in an import that is not a dry run, when the first entry is created or
\* updated every locale of the manifest's list that has a code is in the
\* destination's locale registry, and no locale that exists is created again.
C32_LocalesPrepared ==
  ~opts.dryRun =>
    /\ EntryWritten => CodedLocales \subseteq db.locales
    /\ ExistingNotCreated
    /\ CreatedLocaleOnce

\* the same when the store rejects no creation of a locale
C32_LocalesPreparedUnlessRejected ==
  (~opts.dryRun /\ OpsOf({"createLocale"}) \subseteq {i \in DOMAIN ops : ops[i].ok}) =>
    /\ EntryWritten => CodedLocales \subseteq db.locales
    /\ ExistingNotCreated
    /\ CreatedLocaleOnce

(***************************************************************************)
(* Cleanup with rejected deletions.                                        *)
(***************************************************************************)
\* a delete was issued for the collection entry e
DeleteTried(e) ==
  \E i \in OpsOf({"delete"}) : ops[i].uid = e.uid /\ ops[i].doc = e.documentId

\* a delete was issued for the local document of the single type uid, if the
\* destination had one
SingleDeleteTried(uid) ==
  FindFirstLocal(pre.db, uid) # "" =>
    \E i \in OpsOf({"delete"}) : ops[i].uid = uid

\* the removal of the asset with the hash of media item m was issued, if the
\* destination had such an asset
RemoveTried(m) ==
  (\E f \in pre.db.files : f.hash = HashOf(m)) =>
    \E i \in OpsOf({"removeFile"}) : ops[i].doc = HashOf(m)

\* the store rejected a deletion in this run
DeletionRejected == \E i \in OpsOf({"delete", "removeFile"}) : ~ops[i].ok

\* C33: when the store rejects the deletion of an entry or of an asset during
\* --clean, the run still issues the deletion of every entry the manifest lists
\* (unless --skip-schema turns the entry cleanup off) and of every asset it lists
\* (unless --skip-media), and it ends with exit code 0.
C33_CleanupBestEffort ==
  (opts.clean /\ ~opts.dryRun /\ Terminated) =>
    /\ Completed
    /\ ~opts.skipSchema =>
         \A e \in ManifestEntries(manifest) :
           IF Kind(e.uid) = "collectionType" THEN DeleteTried(e)
           ELSE SingleDeleteTried(e.uid)
    /\ ~opts.skipMedia => \A m \in Range(manifest.media) : RemoveTried(m)

\* a delete of a collection entry was rejected and a later entry of the same
\* type and an asset were deleted all the same
C33_Witness ==
  /\ Completed
  /\ opts.clean
  /\ \E i, j, k \in DOMAIN ops :
       /\ i < j /\ j < k
       /\ ops[i].op = "delete" /\ ~ops[i].ok
       /\ ops[j].op = "delete" /\ ops[j].ok /\ ops[j].uid = ops[i].uid
       /\ ops[k].op = "removeFile" /\ ops[k].ok

(***************************************************************************)
(* A store that fails to load.                                             *)
(***************************************************************************)
\* the schema files of the export are in the project's src/
SchemaRepaired == \A n \in archive.schema : SrcDir(n, "export") \in fsys.schema

\* the run ended because the store could not be loaded
LoadFailed ==
  /\ Terminated
  /\ archive.exists /\ archive.extracts /\ archive.hasData /\ archive.parses
  /\ Rejects("load", "", "", "")

\* C34: when the store fails to load in a --clean run without --skip-schema,
\* the schema files of the export are copied into the project and the load is
\* tried once more before the run gives up with exit code 1.
C34_RepairBeforeGivingUp ==
  (LoadFailed /\ opts.clean /\ ~opts.skipSchema /\ ~opts.dryRun) =>
    (SchemaRepaired /\ exitCode = 1)

(***************************************************************************)
(* What an import without --clean leaves in place.                         *)
(***************************************************************************)
\* the row r of the destination is still there: same row, same content type,
\* documentId and locale
EntryKept(r) ==
  \E q \in db.entries :
    /\ q.id = r.id
    /\ q.uid = r.uid /\ q.documentId = r.documentId /\ q.locale = r.locale

\* the asset f is still there, record and bytes
AssetKept(f) == f \in db.files /\ f.hash \in fsys.uploads

\* C35: an import without --clean issues no delete and no removal: at every
\* point of the run every entry and every media asset the destination held before
\* the invocation is still there.
C35_ImportDeletesNothing ==
  ~opts.clean =>
    /\ OpsOf({"delete", "removeFile"}) = {}
    /\ \A r \in pre.db.entries : EntryKept(r)
    /\ \A f \in pre.db.files : AssetKept(f)

\* a completed import into a destination that held an entry and an asset of the
\* manifest next to foreign ones; the import updated and created entries
C35_Witness ==
  /\ Completed
  /\ ~opts.clean
  /\ \E r \in pre.db.entries : r.documentId \in ManifestDocs(r.uid)
  /\ \E r \in pre.db.entries : r.documentId \notin ManifestDocs(r.uid)
  /\ \E f \in pre.db.files : f.hash \in ManifestHashes
  /\ \E i \in OpsOf({"update"}) : ops[i].ok
  /\ \E i \in OpsOf({"create"}) : ops[i].ok

(***************************************************************************)
(* The id map.                                                             *)
(***************************************************************************)
\* the pair (m, mediaIdMap[m]) names an asset of the destination that has the
\* hash of the source asset m
MapsToAsset(m) ==
  \E f \in db.files : f.id = mediaIdMap[m] /\ f.hash = HashOf(m)

\* C36: at every point of a run every pair (old id, new id) of the id map names
\* an asset that exists in the destination and has the hash of the source asset
\* with the old id; a run starts with the empty map.
C36_IdMapNamesAssets ==
  /\ \A m \in DOMAIN mediaIdMap : MapsToAsset(m)
  /\ pc = "start" => mediaIdMap = NoMap

\* a completed import whose map holds an asset the destination already had and
\* one the run created
C36_Witness ==
  /\ Completed
  /\ \E m \in DOMAIN mediaIdMap : \E f \in pre.db.files : f.id = mediaIdMap[m]
  /\ \E m \in DOMAIN mediaIdMap : \A f \in pre.db.files : f.id # mediaIdMap[m]

(***************************************************************************)
(* Media objects of the export and of the import.                          *)
(***************************************************************************)
\* the media list of the manifest has an element with the id of object o
InMediaList(o) == \E k \in DOMAIN walk.listed : walk.listed[k].id = o.id

\* C37: every object of an exported entry that the import treats as a media
\* reference (it has id, mime, url and hash) is an element of the media list the
\* export wrote for the entry.
C37_TreatedImpliesListed ==
  walk # NoWalk => \A i \in walk.treated : InMediaList(walk.data[i])

\* the same for the objects that have an extension
C37_TreatedWithExtImpliesListed ==
  walk # NoWalk =>
    \A i \in walk.treated : walk.data[i].ext # "" => InMediaList(walk.data[i])

(***************************************************************************)
(* The extraction directory.                                               *)
(***************************************************************************)
\* the run extracted an archive into temp-<name>
Extracted == archive.tar /\ archive.exists /\ archive.extracts

\* C38: however a run that extracted an archive ends (completion, clean-only
\* exit, data.json missing, data.json not parsable, store not loadable), the
\* extraction directory is gone when it has ended.
C38_TempRemovedOnExit ==
  (Terminated /\ Extracted) => ~fsys.temp

\* the same for the ends other than a manifest that does not parse and a
\* store that does not load
C38_TempRemovedOnHandledExit ==
  (Terminated /\ Extracted /\ archive.parses /\ ~Rejects("load", "", "", "")) =>
    ~fsys.temp

====
